---- MODULE Spec2Model ----
(***************************************************************************)
(* Model of the LocalAIMailAssistant core: the background job manager      *)
(* (src/background_tasks/background_manager.py), the mail store            *)
(* (src/mail_db.py, src/database/mail_db.py), the two-phase flag toggle    *)
(* (src/imap_client_management/flag.py) and the mailbox synchronisation    *)
(* pass (src/imap_client_management/refresh.py).                           *)
(***************************************************************************)
EXTENDS Integers, Sequences, FiniteSets, TLC

(***************************************************************************)
(* Bounds of the model.                                                    *)
(***************************************************************************)
MaxJobs == 2
MaxClock == 3

(***************************************************************************)
(* Enumerations of src/models/jobs.py.                                     *)
(***************************************************************************)
JOB_TYPE == {"summary", "draft", "chat"}
STATUS == {"pending", "in_progress", "completed", "failed"}

\* a loop that forgets the draft jobs
RunOrderNoDraft == <<"chat", "summary">>

\* the order in which BackgroundTaskManager.run polls the job types
RunOrder == <<"chat", "summary", "draft">>

\* keys of BackgroundTaskManager.dbs (the configured accounts) and the
\* account ids and message ids callers pass to add_job
Accounts == {"test"}
AccountInputs == {"test", "nobody"}
JobMessageIds == {"m1"}

\* Optional[T]: None is the empty tuple, a value x is <<x>>
None == <<>>
Some(x) == <<x>>

VARIABLES
    \* ---- background job manager ----
    jobs,            \* the JobStatusSQL table: sequence of rows, id = index
    loop_pc,         \* position of BackgroundTaskManager.run
    type_idx,        \* index into RunOrder of the type being processed
    pending_jobs,    \* the rows selected by process_pending_jobs (detached)
    job,             \* the detached row run_job is working on
    now,             \* what datetime.now() returns
    add_result,      \* the last add_job call: account_id, raised, returned
    handler_result,  \* history: what the handler of job i did
    in_tick,         \* history: job i was pending when the current tick began
    \* ---- mail store ----
    rows,            \* the MailMessageSQL table: set of rows
    files,           \* the contents folder: file name -> text
    file_writes,     \* history: how often each content file was written
    save_pc,         \* position of each thread inside save_email
    save_arg,        \* the mail each thread is saving
    save_result,     \* what the last save_email of each thread returned
    save_before,     \* history: the table when the thread called save_email
    \* ---- flag toggle ----
    server_flags,    \* the flags the server holds for each (mailbox, uid)
    toggle_arg,      \* the arguments of the last toggle_flag call
    toggle_result,   \* how that call ended
    toggle_before,   \* history: the flags of the message before that call
    \* ---- server mailboxes and the synchronisation pass ----
    remote_mailboxes, \* the mailboxes the server lists
    remote_uids,     \* the uids the server holds in each mailbox
    sync_pc,         \* position of sync_account
    last_mailboxes,  \* sync_account: the mailboxes known locally at the start
    current_mailboxes, \* sync_account: the mailboxes the server listed
    sync_queue,      \* the mailboxes still to be handled in this phase
    mailbox,         \* refresh_mailbox: the mailbox being refreshed
    to_fetch,        \* refresh_mailbox: the uids still to be fetched
    events,          \* the events published on the event bus by this pass
    fetch_failed,    \* history: (mailbox, uid) whose fetch gave no mail
    refresh_failed,  \* history: mailboxes whose refresh or flag update raised
    retry_exhausted, \* history: one of them raised for exhausted retries
    \* ---- refresh_mailbox of background_tasks/refresh.py ----
    update_info,     \* the file update_info.json: the persisted UpdateStatus
    bg_pc,           \* position of refresh_mailbox
    bg_mailbox,      \* its mailbox argument
    start_to_update, \* its local start_to_update
    after_date,      \* its local after_date
    to_do,           \* the uids fetch_and_save_mails still has to handle
    status,          \* its local status after line 57
    update_info_before, \* history: update_info when refresh_mailbox was called
    store_before,    \* history: the rows when refresh_mailbox was called
    yielded,         \* the message ids the generator has yielded in this call
    \* ---- RealIMAPClient._retry and the client method around it ----
    retry_pc,        \* position inside the client method and _retry
    retry_op,        \* the client method's network operation
    attempts,        \* _retry: the local attempts
    calls,           \* history: how often _retry called func
    retry_log,       \* history: the calls, logouts, sleeps and connects made
    statuses,        \* history: the statuses the server answered
    retry_result,    \* what _retry returned or raised
    op_result,       \* what the client method gave to its caller
    \* ---- RealIMAPClient.update_flags ----
    push_arg,        \* history: the mail of the last update_flags call
    push_before,     \* history: the server's flags of that mail before it
    push_after,      \* history: the server's flags of that mail after it
    \* ---- MailDB.toggle_flag called on its own ----
    db_arg,          \* the arguments of the last call
    db_kind,         \* how it ended: Ok, Err or raise
    db_value,        \* the record inside its Ok
    db_flags_before, \* history: the flags of the message before the call
    db_prev,         \* history: the three above of the call before
    \* ---- MailDB.update_flags called on its own ----
    uf_data,         \* the data argument of the last call: uid -> flags
    uf_mailbox,      \* its mailbox argument
    uf_tick,         \* history: flips with every call
    \* ---- MailDB.delete_records called on its own ----
    del_mailbox,     \* the mailbox of the where clause of the last call
    del_tick,        \* history: flips with every call
    \* ---- GET /background/status ----
    q_pc,            \* "idle", or "responded" until the response is sent
    q_filter,        \* the query parameters of the request
    q_result,        \* what the endpoint did: raised, executed, rows
    \* ---- the two IMAP clients asked the same question ----
    cl_arg,          \* <<mailbox, uid>> of the last pair of calls
    cl_real,         \* what RealIMAPClient answered: search, fetch
    cl_test,         \* what TestIMAPClient answered: search, fetch
    \* ---- one RealIMAPClient and its imaplib connection ----
    ses_pc,          \* "idle", "select", "command" or "done"
    ses_target,      \* the mailbox the running client method is about
    ses_cmds,        \* the UID commands the method has still to issue
    ses_attempts,    \* attempts of the running _retry
    conn,            \* self.connection: imaplib state and selected mailbox
    ses_sent,        \* history: <<target, selected mailbox>> of each UID
                     \* command that went to the server
    \* ---- MailDB._fuzzy_cache ----
    fz_subjects,     \* the keys of _subjects: message ids
    fz_senders,      \* the keys of _senders: sender addresses
    fz_last_update,  \* _last_update: 0 or the time of the last update
    fz_result,       \* what the last fuzzy_search returned
    fz_tick          \* flips with every fuzzy_search

jobVars == <<jobs, loop_pc, type_idx, pending_jobs, job, now, add_result,
             handler_result, in_tick>>

storeVars == <<rows, files, file_writes>>
saveVars == <<save_pc, save_arg, save_result, save_before>>

toggleVars == <<server_flags, toggle_arg, toggle_result, toggle_before>>

remoteVars == <<remote_mailboxes, remote_uids>>
syncVars == <<sync_pc, last_mailboxes, current_mailboxes, sync_queue, mailbox,
              to_fetch, events, fetch_failed, refresh_failed, retry_exhausted>>

bgVars == <<update_info, bg_pc, bg_mailbox, start_to_update, after_date,
            to_do, status, update_info_before, store_before, yielded>>

retryVars == <<retry_pc, retry_op, attempts, calls, retry_log, statuses,
               retry_result, op_result>>

pushVars == <<push_arg, push_before, push_after>>

dbToggleVars == <<db_arg, db_kind, db_value, db_flags_before, db_prev>>

apiVars == <<uf_data, uf_mailbox, uf_tick, del_mailbox, del_tick>>

queryVars == <<q_pc, q_filter, q_result>>

clientVars == <<cl_arg, cl_real, cl_test>>

sessionVars == <<ses_pc, ses_target, ses_cmds, ses_attempts, conn, ses_sent>>

fuzzyVars == <<fz_subjects, fz_senders, fz_last_update, fz_result, fz_tick>>

\* the streaming refresh, the retry policy, the flag push, the store's own
\* toggle and the status endpoint: the parts the jobs, the saves and the
\* passes do not touch
restVars == <<bgVars, retryVars, pushVars, dbToggleVars, apiVars,
              sessionVars, fuzzyVars, clientVars,
              queryVars>>

vars == <<jobVars, restVars, storeVars, saveVars, toggleVars, remoteVars,
          syncVars>>

JobIds == 1..Len(jobs)

\* JobStatusSQL(job_type, email_message_id, status=pending, account_id)
JobStatusSQL(id, job_type, email_message_id, account_id) ==
    [id |-> id, job_type |-> job_type, email_message_id |-> email_message_id,
     account_id |-> account_id, status |-> "pending", start_time |-> None,
     end_time |-> None, error_message |-> None, output |-> None]

NoJob == [id |-> 0]

\* no client has been asked yet
NoAnswer == [search |-> [raised |-> FALSE, uids |-> <<>>],
             fetch |-> [raised |-> FALSE, mail |-> None]]

\* the query parameters of GET /background/status, all left out
NoFilter == [job_id |-> None, job_type |-> None, status |-> None,
             message_id |-> None, account_id |-> None]

NoResponse == [raised |-> FALSE, executed |-> FALSE, rows |-> <<>>]

\* the requests a client sends: no parameter, one, two or three of them
FilterInputs ==
    {NoFilter,
     [NoFilter EXCEPT !.job_id = Some(1)],
     [NoFilter EXCEPT !.job_type = Some("chat"), !.status = Some("completed")],
     [NoFilter EXCEPT !.message_id = Some("m1")],
     [NoFilter EXCEPT !.account_id = Some("nobody")],
     [NoFilter EXCEPT !.account_id = Some("test"), !.status = Some("pending"),
                      !.job_id = Some(2)]}

\* JobStatus.from_sql_model: every column but the id
from_sql_model(r) ==
    [job_type |-> r.job_type, email_message_id |-> r.email_message_id,
     account_id |-> r.account_id, status |-> r.status,
     start_time |-> r.start_time, end_time |-> r.end_time,
     error_message |-> r.error_message, output |-> r.output]

(***************************************************************************)
(* The mails of the server: a mail lives in a mailbox under a uid and      *)
(* carries its own Message-ID.  INBOX/1 and sent/1 are two copies of one   *)
(* message (a mail sent to oneself), so they share the Message-ID.         *)
(***************************************************************************)
Mailboxes == {"INBOX", "sent"}

\* AccountSettings.imap_inbox_folder / imap_sent_folder of the account
imap_inbox_folder == "INBOX"
imap_sent_folder == "sent"
MaxUid == 2
\* row ids grow with every save after a deletion: the deleting operations
\* stop once an id has passed MaxRowId
MaxRowId == 2
Uids == 1..MaxUid

MessageIdOf(mb, uid) ==
    IF uid = 1 THEN "m1"
    ELSE IF mb = "INBOX" THEN "m2" ELSE "m3"

\* the Date header of a message: INBOX/2 was sent before INBOX/1, a mail
\* that was long on its way
date_sent(message_id) ==
    IF message_id = "m1" THEN 2 ELSE IF message_id = "m2" THEN 1 ELSE 3

MessageIds == {MessageIdOf(mb, u) : mb \in Mailboxes, u \in Uids}

\* the MailMessage that fetch_email_by_uid parses for (uid, mailbox)
MailMessage(mb, uid) ==
    [message_id |-> MessageIdOf(mb, uid), mailbox |-> mb,
     uid |-> uid, content |-> <<mb, uid>>]

Mails == {MailMessage(mb, u) : mb \in Mailboxes, u \in Uids}
NoMail == [message_id |-> "none"]

\* sha1(str(Message_ID).encode()).hexdigest(): the name of the content file
sha1(message_id) == <<"sha1", message_id>>
ContentFiles == {sha1(m) : m \in MessageIds}

\* the threads that may run save_email at the same time
Threads == {1, 2}

\* SQLite rowid of a new row: one more than the largest in the table
NewRowId(table) ==
    IF table = {} THEN 1
    ELSE (CHOOSE n \in {r.id : r \in table} :
            \A r \in table : r.id <= n) + 1

\* MailMessageSQL(...) as save_email builds it; the flags take their defaults
MailMessageSQL(table, mail) ==
    [id |-> NewRowId(table), message_id |-> mail.message_id,
     mailbox |-> mail.mailbox, imap_uid |-> mail.uid,
     content_file |-> sha1(mail.message_id),
     seen |-> FALSE, answered |-> FALSE, flagged |-> FALSE]

\* a lookup by mailbox and uid instead of by Message-ID
ExistingByUid(table, mail) ==
    {r \in table : r.mailbox = mail.mailbox /\ r.imap_uid = mail.uid}

\* select(MailMessageSQL).where(message_id == email_obj.Message_ID)
Existing(table, mail) == {r \in table : r.message_id = mail.message_id}

(***************************************************************************)
(* Flags (src/models/mail_flag.py) and the flag toggle of the store         *)
(***************************************************************************)
MailFlag == {"Seen", "Flagged", "Answered"}

\* the flags an IMAP server may hold for a message: the three above,
\* \Deleted, and a keyword of another mail program
ServerFlags == MailFlag \cup {"Deleted", "Work"}

\* the flag sets the server is seen to hold for a message
RemoteFlagSets == {{}, {"Seen"}, {"Flagged", "Deleted"}}

\* the seen/answered/flagged projection of a row, as a set of flags
FlagsOf(r) ==
    {f \in MailFlag : \/ f = "Seen" /\ r.seen
                      \/ f = "Answered" /\ r.answered
                      \/ f = "Flagged" /\ r.flagged}

\* the four `if flag == ...` statements of MailDB.toggle_flag
Flip(r, flag) ==
    [r EXCEPT !.answered = IF flag = "Answered" THEN ~@ ELSE @,
              !.seen = IF flag = "Seen" THEN ~@ ELSE @,
              !.flagged = IF flag = "Flagged" THEN ~@ ELSE @]

\* sql_email_chat_to_email_chat(chat): EmailChat.model_validate_json(
\* chat.chat_json); reading chat_json of a record without that field raises
sql_email_chat_to_email_chat(record) ==
    IF "chat_json" \in DOMAIN record
    THEN Some(record.chat_json)
    ELSE "AttributeError"

\* a lookup that forgets its where clause
query_any_item(table, email_message_id) == table

\* query_first_item(MailMessage, MailMessage.message_id == email_message_id):
\* the rows the first item is taken from
query_first_item(table, email_message_id) ==
    {r \in table : r.message_id = email_message_id}

\* MailDB.toggle_flag: the table after the call and how the call ended
db_toggle_flag(table, email_message_id, flag) ==
    LET found == query_first_item(table, email_message_id) IN
    IF found = {}
    THEN [rows |-> table, kind |-> "Err", value |-> None]
    ELSE LET mail == CHOOSE r \in found : TRUE
             new == Flip(mail, flag)
             committed == (table \ {mail}) \cup {new}
             ret == sql_email_chat_to_email_chat(new)
         IN  IF ret = "AttributeError"
             THEN [rows |-> committed, kind |-> "raise", value |-> None]
             ELSE [rows |-> committed, kind |-> "Ok", value |-> new]

\* _get_existing_flags: every flag of the FLAGS answer, set(val[1])
get_existing_flags(flags, mail) == flags[<<mail.mailbox, mail.imap_uid>>]

\* _remove_flags: uid STORE -FLAGS, nothing when the set is empty
remove_flags(flags, mail, flags_to_remove) ==
    [flags EXCEPT ![<<mail.mailbox, mail.imap_uid>>] = @ \ flags_to_remove]

\* _add_flags: uid STORE +FLAGS, nothing when the set is empty
add_flags(flags, mail, flags_to_add) ==
    [flags EXCEPT ![<<mail.mailbox, mail.imap_uid>>] = @ \cup flags_to_add]

\* RealIMAPClient.update_flags(mail)
update_flags(flags, mail) ==
    LET existing_flags == get_existing_flags(flags, mail)
        desired_flags == FlagsOf(mail)
        flags_to_add == desired_flags \ existing_flags
        flags_to_remove == existing_flags \ desired_flags
    IN  add_flags(remove_flags(flags, mail, flags_to_remove), mail,
                  flags_to_add)

\* datetime.now(): time does not go backwards between two reads
Tick(t) == {t, IF t < MaxClock THEN t + 1 ELSE t}

Init ==
    /\ jobs = <<>>
    /\ loop_pc = "select"
    /\ type_idx = 1
    /\ pending_jobs = <<>>
    /\ job = NoJob
    /\ now = 0
    /\ add_result = [account_id |-> "none", raised |-> FALSE,
                     returned |-> None]
    /\ handler_result = [i \in 1..MaxJobs |-> "none"]
    /\ in_tick = [i \in 1..MaxJobs |-> FALSE]
    /\ rows = {}
    /\ files = <<>>
    /\ file_writes = [f \in ContentFiles |-> 0]
    /\ save_pc = [t \in Threads |-> "idle"]
    /\ save_arg = [t \in Threads |-> NoMail]
    /\ save_result = [t \in Threads |-> "none"]
    /\ save_before = [t \in Threads |-> {}]
    /\ server_flags = [slot \in Mailboxes \X Uids |-> {}]
    /\ toggle_arg = <<"none", "none">>
    /\ toggle_result = "none"
    /\ toggle_before = None
    /\ remote_mailboxes = {imap_inbox_folder}
    /\ remote_uids = [mb \in Mailboxes |-> {}]
    /\ sync_pc = "idle"
    /\ last_mailboxes = {}
    /\ current_mailboxes = {}
    /\ sync_queue = <<>>
    /\ mailbox = "none"
    /\ to_fetch = {}
    /\ events = {}
    /\ fetch_failed = {}
    /\ refresh_failed = {}
    /\ retry_exhausted = FALSE
    /\ update_info = None
    /\ bg_pc = "idle"
    /\ bg_mailbox = "none"
    /\ start_to_update = 0
    /\ after_date = 0
    /\ to_do = {}
    /\ status = None
    /\ update_info_before = None
    /\ store_before = {}
    /\ yielded = <<>>
    /\ retry_pc = "idle"
    /\ retry_op = "none"
    /\ attempts = 0
    /\ calls = 0
    /\ retry_log = <<>>
    /\ statuses = {}
    /\ retry_result = "none"
    /\ op_result = "none"
    /\ push_arg = None
    /\ push_before = {}
    /\ push_after = {}
    /\ db_arg = <<"none", "none">>
    /\ db_kind = "none"
    /\ db_value = None
    /\ db_flags_before = None
    /\ db_prev = <<<<"none", "none">>, "none", None>>
    /\ uf_data = <<>>
    /\ uf_mailbox = "none"
    /\ uf_tick = FALSE
    /\ del_mailbox = "none"
    /\ del_tick = FALSE
    /\ q_pc = "idle"
    /\ q_filter = NoFilter
    /\ q_result = NoResponse
    /\ cl_arg = <<"none", 0>>
    /\ cl_real = NoAnswer
    /\ cl_test = NoAnswer
    /\ ses_pc = "idle"
    /\ ses_target = "none"
    /\ ses_cmds = 0
    /\ ses_attempts = 0
    /\ conn = [state |-> "AUTH", mailbox |-> "none"]
    /\ ses_sent = {}
    /\ fz_subjects = {}
    /\ fz_senders = {}
    /\ fz_last_update = 1
    /\ fz_result = {}
    /\ fz_tick = FALSE

(***************************************************************************)
(* BackgroundTaskManager.add_job                                           *)
(***************************************************************************)
\* a manager that accepts every account_id
any_account(account_id) == TRUE

\* account_id in self.dbs
known_account(account_id) == account_id \in Accounts

add_job(job_type, email_message_id, account_id) ==
    /\ Len(jobs) < MaxJobs
    /\ IF ~known_account(account_id)
       THEN /\ add_result' = [account_id |-> account_id, raised |-> TRUE,
                              returned |-> None]
            /\ UNCHANGED jobs
       ELSE LET new == JobStatusSQL(Len(jobs) + 1, job_type,
                                   email_message_id, account_id) IN
            /\ jobs' = Append(jobs, new)
            /\ add_result' = [account_id |-> account_id, raised |-> FALSE,
                              returned |-> Some(new)]
    /\ UNCHANGED <<loop_pc, type_idx, pending_jobs, job, now, handler_result,
                   in_tick>>

\* a merge that is never committed
merge_without_commit(table, j) == table

\* session.merge(job); session.commit()
update_job(table, j) == [table EXCEPT ![j.id] = j]

\* a select that forgets the status filter
SelectAnyStatus(table, job_type) ==
    SelectSeq(table, LAMBDA r : r.job_type = job_type)

\* select(JobStatusSQL).where(job_type == job_type, status == pending)
SelectPending(table, job_type) ==
    SelectSeq(table, LAMBDA r : r.job_type = job_type /\ r.status = "pending")

\* the loop position after the jobs of RunOrder[i] are done
AfterType(i) == IF i < Len(RunOrder) THEN "select" ELSE "sleep"
\* a loop that walks the types from the last to the first
NextTypeBackwards(i) == IF i > 1 THEN i - 1 ELSE Len(RunOrder)

\* the type the next call of process_pending_jobs is made with
NextType(i) == IF i < Len(RunOrder) THEN i + 1 ELSE 1

(***************************************************************************)
(* process_pending_jobs: the select at its head                            *)
(***************************************************************************)
process_pending_jobs ==
    /\ loop_pc = "select"
    /\ LET sel == SelectPending(jobs, RunOrder[type_idx]) IN
       /\ pending_jobs' = sel
       /\ IF sel = <<>>
          THEN /\ loop_pc' = AfterType(type_idx)
               /\ type_idx' = NextType(type_idx)
          ELSE /\ loop_pc' = "run"
               /\ UNCHANGED type_idx
    /\ UNCHANGED <<jobs, job, now, add_result, handler_result, in_tick>>

\* a handler started with create_task: the loop goes on to the next job
handler_not_awaited == "run"

\* result = await asyncio.to_thread(...): run_job waits for the handler
handler_awaited == "handler"

(***************************************************************************)
(* run_job up to the await of asyncio.to_thread                            *)
(***************************************************************************)
run_job_start ==
    /\ loop_pc = "run"
    /\ pending_jobs # <<>>
    /\ \E t \in Tick(now) :
         LET j == [Head(pending_jobs) EXCEPT !.status = "in_progress",
                                             !.start_time = Some(t)] IN
         /\ now' = t
         /\ job' = j
         /\ jobs' = update_job(jobs, j)
    /\ pending_jobs' = Tail(pending_jobs)
    /\ loop_pc' = handler_awaited
    /\ UNCHANGED <<type_idx, add_result, handler_result, in_tick>>

\* the loop position after run_job returned
AfterJob ==
    /\ IF pending_jobs # <<>>
       THEN /\ loop_pc' = "run"
            /\ UNCHANGED type_idx
       ELSE /\ loop_pc' = AfterType(type_idx)
            /\ type_idx' = NextType(type_idx)

\* run_job after the handler returned Ok(...)
run_job_ok ==
    /\ loop_pc = "handler"
    /\ \E t \in Tick(now) :
         LET j == [job EXCEPT !.status = "completed", !.end_time = Some(t)] IN
         /\ now' = t
         /\ job' = j
         /\ jobs' = update_job(jobs, j)
    /\ handler_result' = [handler_result EXCEPT ![job.id] = "ok"]
    /\ AfterJob
    /\ UNCHANGED <<pending_jobs, add_result, in_tick>>

\* run_job after the handler returned Err(message)
run_job_err ==
    /\ loop_pc = "handler"
    /\ \E t \in Tick(now) :
         LET j == [job EXCEPT !.status = "failed", !.end_time = Some(t),
                              !.error_message = Some("error")] IN
         /\ now' = t
         /\ job' = j
         /\ jobs' = update_job(jobs, j)
    /\ handler_result' = [handler_result EXCEPT ![job.id] = "err"]
    /\ AfterJob
    /\ UNCHANGED <<pending_jobs, add_result, in_tick>>

\* the handler raised: the exception leaves run_job, process_pending_jobs
\* and run, none of which has a try block
run_job_raise ==
    /\ loop_pc = "handler"
    /\ handler_result' = [handler_result EXCEPT ![job.id] = "raise"]
    /\ loop_pc' = "dead"
    /\ UNCHANGED <<jobs, type_idx, pending_jobs, job, now, add_result, in_tick>>

\* await asyncio.sleep(5), then the next tick begins
run_sleep ==
    /\ loop_pc = "sleep"
    /\ loop_pc' = "select"
    /\ in_tick' = [i \in 1..MaxJobs |->
                     i \in JobIds /\ jobs[i].status = "pending"]
    /\ UNCHANGED <<jobs, type_idx, pending_jobs, job, now, add_result,
                   handler_result>>

(***************************************************************************)
(* MailDB.save_email, one step per access to the file system or database   *)
(***************************************************************************)
save_email_call(t, mail) ==
    /\ save_pc[t] = "idle"
    /\ save_pc' = [save_pc EXCEPT ![t] = "check_file"]
    /\ save_arg' = [save_arg EXCEPT ![t] = mail]
    /\ save_result' = [save_result EXCEPT ![t] = "none"]
    /\ save_before' = [save_before EXCEPT ![t] = rows]
    /\ UNCHANGED storeVars

\* if not content_file.exists()
save_email_check_file(t) ==
    /\ save_pc[t] = "check_file"
    /\ save_pc' = [save_pc EXCEPT ![t] =
                     IF sha1(save_arg[t].message_id) \in DOMAIN files
                     THEN "select" ELSE "write_file"]
    /\ UNCHANGED <<storeVars, save_arg, save_result, save_before>>

\* open(content_file, "w"); f.write(email_obj.Content)
save_email_write_file(t) ==
    /\ save_pc[t] = "write_file"
    /\ LET f == sha1(save_arg[t].message_id) IN
       /\ files' = [g \in DOMAIN files \cup {f} |->
                      IF g = f THEN save_arg[t].content ELSE files[g]]
       /\ file_writes' = [file_writes EXCEPT ![f] = @ + 1]
    /\ save_pc' = [save_pc EXCEPT ![t] = "select"]
    /\ UNCHANGED <<rows, save_arg, save_result, save_before>>

\* existing = session.exec(select ...).first(); if existing: return None
save_email_select(t) ==
    /\ save_pc[t] = "select"
    /\ IF Existing(rows, save_arg[t]) # {}
       THEN /\ save_pc' = [save_pc EXCEPT ![t] = "idle"]
            /\ save_result' = [save_result EXCEPT ![t] = "None"]
       ELSE /\ save_pc' = [save_pc EXCEPT ![t] = "insert"]
            /\ UNCHANGED save_result
    /\ UNCHANGED <<storeVars, save_arg, save_before>>

\* session.add(orm_obj); session.commit(): message_id is declared unique,
\* so the commit of a second row with the same message_id raises
save_email_insert(t) ==
    /\ save_pc[t] = "insert"
    /\ IF \E r \in rows : r.message_id = save_arg[t].message_id
       THEN /\ save_result' = [save_result EXCEPT ![t] = "IntegrityError"]
            /\ UNCHANGED rows
       ELSE /\ rows' = rows \cup {MailMessageSQL(rows, save_arg[t])}
            /\ save_result' = [save_result EXCEPT ![t] = "saved"]
    /\ save_pc' = [save_pc EXCEPT ![t] = "idle"]
    /\ UNCHANGED <<files, file_writes, save_arg, save_before>>

\* the store does not touch the job table nor the server
StoreFrame == UNCHANGED <<jobVars, restVars, toggleVars, remoteVars, syncVars>>

\* save_email run from call to return with no other thread in between
save_email_rows(table, mail) ==
    IF Existing(table, mail) # {} THEN table
    ELSE table \cup {MailMessageSQL(table, mail)}

save_email_files(fs, mail) ==
    LET f == sha1(mail.message_id) IN
    IF f \in DOMAIN fs THEN fs
    ELSE [g \in DOMAIN fs \cup {f} |-> IF g = f THEN mail.content ELSE fs[g]]

save_email(mail) ==
    /\ rows' = save_email_rows(rows, mail)
    /\ files' = save_email_files(files, mail)
    /\ file_writes' = [file_writes EXCEPT ![sha1(mail.message_id)] =
                         IF sha1(mail.message_id) \in DOMAIN files
                         THEN @ ELSE @ + 1]
    /\ UNCHANGED saveVars

\* one caller saving mail after mail
SaveNext ==
    \/ \E mail \in Mails : save_email_call(1, mail) /\ StoreFrame
    \/ save_email_check_file(1) /\ StoreFrame
    \/ save_email_write_file(1) /\ StoreFrame
    \/ save_email_select(1) /\ StoreFrame
    \/ save_email_insert(1) /\ StoreFrame

SaveSpec == Init /\ [][SaveNext]_vars

\* two callers (a synchronisation pass and a refresh) saving concurrently
ConcSaveNext ==
    \/ \E t \in Threads, mail \in Mails : save_email_call(t, mail) /\ StoreFrame
    \/ \E t \in Threads : save_email_check_file(t) /\ StoreFrame
    \/ \E t \in Threads : save_email_write_file(t) /\ StoreFrame
    \/ \E t \in Threads : save_email_select(t) /\ StoreFrame
    \/ \E t \in Threads : save_email_insert(t) /\ StoreFrame

ConcSaveSpec == Init /\ [][ConcSaveNext]_vars

(***************************************************************************)
(* toggle_flag of src/imap_client_management/flag.py: flip locally, push   *)
(* to the server, flip back when the push fails                            *)
(***************************************************************************)
toggle_flag(email_message_id, flag) ==
    LET res == db_toggle_flag(rows, email_message_id, flag)
        before == {r \in rows : r.message_id = email_message_id}
    IN
    /\ toggle_arg' = <<email_message_id, flag>>
    /\ toggle_before' = IF before = {} THEN None
                        ELSE Some(FlagsOf(CHOOSE r \in before : TRUE))
    /\ IF res.kind = "Err"
       THEN \* if is_err(res): return res
            /\ toggle_result' = "Err"
            /\ UNCHANGED <<rows, server_flags>>
       ELSE IF res.kind = "raise"
       THEN \* db.toggle_flag is called outside the try block
            /\ toggle_result' = "raised"
            /\ rows' = res.rows
            /\ UNCHANGED server_flags
       ELSE \E pushed \in BOOLEAN :
              IF pushed
              THEN /\ server_flags' = update_flags(server_flags, res.value)
                   /\ rows' = res.rows
                   /\ toggle_result' = "Ok"
              ELSE \* except Exception: revert, return Err
                   /\ rows' = db_toggle_flag(res.rows, email_message_id,
                                             flag).rows
                   /\ toggle_result' = "Err"
                   /\ UNCHANGED server_flags
    /\ UNCHANGED <<files, file_writes, saveVars, jobVars, restVars,
                   remoteVars, syncVars>>

ToggleNext ==
    \/ \E mail \in Mails : save_email(mail) /\ StoreFrame
    \/ \E m \in MessageIds, flag \in MailFlag : toggle_flag(m, flag)

ToggleSpec == Init /\ [][ToggleNext]_vars

(***************************************************************************)
(* The server between two passes: mailboxes and mails come and go; INBOX   *)
(* always exists.                                                          *)
(***************************************************************************)
remote_change ==
    /\ sync_pc \in {"idle", "done", "aborted"}
    /\ \E boxes \in SUBSET Mailboxes, u \in [Mailboxes -> SUBSET Uids] :
         /\ imap_inbox_folder \in boxes
         /\ \A mb \in Mailboxes \ boxes : u[mb] = {}
         /\ remote_mailboxes' = boxes
         /\ remote_uids' = u
    /\ sync_pc' = "idle"
    /\ last_mailboxes' = {}
    /\ current_mailboxes' = {}
    /\ sync_queue' = <<>>
    /\ mailbox' = "none"
    /\ to_fetch' = {}
    /\ events' = {}
    /\ fetch_failed' = {}
    /\ refresh_failed' = {}
    /\ retry_exhausted' = FALSE
    /\ UNCHANGED <<jobVars, restVars, storeVars, saveVars, toggleVars>>

(***************************************************************************)
(* sync_account of src/imap_client_management/refresh.py                   *)
(***************************************************************************)
\* priorities.get(m, 2) of sort_mailboxes
Priority(m) ==
    IF m = imap_inbox_folder THEN 0
    ELSE IF m = imap_sent_folder THEN 1 ELSE 2

\* sorted(mailboxes, key=...): the orders a stable sort of a set can give
sort_mailboxes(S) ==
    {q \in [1..Cardinality(S) -> S] :
        /\ \A i, j \in 1..Cardinality(S) : i # j => q[i] # q[j]
        /\ \A i, j \in 1..Cardinality(S) :
             i < j => Priority(q[i]) <= Priority(q[j])}

\* db.delete_records(MailMessageSQL, MailMessageSQL.mailbox == mailbox)
\* for every mailbox of S
delete_mailbox(table, S) == {r \in table : r.mailbox \notin S}

\* delete_mailbox(db=db, client=client, mailbox=mailbox) without await: the
\* coroutine object is created and dropped, its body never runs
NotAwaited(before, after) == before

\* the uids of every mailbox, not only of the one being refreshed
AlreadySavedAnywhere(table, mb) == {r.imap_uid : r \in table}

\* select(MailMessageSQL.imap_uid).where(MailMessageSQL.mailbox == mailbox)
AlreadySaved(table, mb) == {r.imap_uid : r \in {x \in table : x.mailbox = mb}}

\* client.fetch_uids_after_date(mailbox=mailbox): no date, so every uid
fetch_uids_after_date(mb) == remote_uids[mb]

\* the message sequence number of a uid: its position in the mailbox
SeqNo(mb, uid) == Cardinality({v \in remote_uids[mb] : v <= uid})

\* parse_flags_filtered keeps the flags that are members of MailFlag
parse_flags_filtered(flags) == flags \cap MailFlag

\* RealIMAPClient.fetch_all_flags_off_mailbox(mailbox): search(None, "ALL")
\* and fetch(first:last, "(FLAGS)") address the messages by sequence number,
\* and parse_all_flags returns that number as the key of the flags
fetch_all_flags_off_mailbox(mb) ==
    [n \in {SeqNo(mb, u) : u \in remote_uids[mb]} |->
        parse_flags_filtered(
            server_flags[<<mb, CHOOSE u \in remote_uids[mb] :
                                   SeqNo(mb, u) = n>>])]

\* an update that matches the uid in every mailbox
db_update_flags_by_uid(table, data, mb) ==
    {IF r.imap_uid \in DOMAIN data
     THEN [r EXCEPT !.seen = "Seen" \in data[r.imap_uid],
                    !.answered = "Answered" \in data[r.imap_uid],
                    !.flagged = "Flagged" \in data[r.imap_uid]]
     ELSE r : r \in table}

\* MailDB.update_flags(data, mailbox)
db_update_flags(table, data, mb) ==
    {IF r.mailbox = mb /\ r.imap_uid \in DOMAIN data
     THEN [r EXCEPT !.seen = "Seen" \in data[r.imap_uid],
                    !.answered = "Answered" \in data[r.imap_uid],
                    !.flagged = "Flagged" \in data[r.imap_uid]]
     ELSE r : r \in table}

\* the flag phase begins with the sorted current mailboxes
EnterFlags ==
    \E q \in sort_mailboxes(current_mailboxes) :
        /\ sync_queue' = q
        /\ sync_pc' = IF q = <<>> THEN "done" ELSE "flags"

\* the next mailbox to refresh, or the flag phase
AfterRefresh(rest) ==
    IF rest # <<>>
    THEN sync_queue' = rest /\ sync_pc' = "refresh"
    ELSE EnterFlags

\* a failure that stops the whole pass
AfterFailureAborts(rest) == sync_pc' = "aborted" /\ sync_queue' = rest

\* refresh_mailbox returns after its except block: sync_account goes on
\* with the next mailbox as after a refresh without error
AfterFailure(rest) == AfterRefresh(rest)

\* what makes a client call raise: a data error (unknown mailbox, answer
\* that cannot be parsed) or the Exception of _retry after its last attempt
ErrorCauses == {"data", "connection"}

\* lines 143-152: the local and the listed mailboxes, the deleted ones
sync_account_begin ==
    /\ sync_pc = "idle"
    /\ last_mailboxes' = {r.mailbox : r \in rows}
    /\ events' = {}
    /\ fetch_failed' = {}
    /\ refresh_failed' = {}
    /\ retry_exhausted' = FALSE
    /\ \/ \* client.list_mailboxes() raised: the pass ends with the exception
          /\ sync_pc' = "aborted"
          /\ UNCHANGED <<rows, current_mailboxes, sync_queue>>
       \/ LET last == {r.mailbox : r \in rows}
              current == remote_mailboxes
          IN /\ current_mailboxes' = current
             /\ rows' = NotAwaited(rows, delete_mailbox(rows, last \ current))
             /\ \E qn \in sort_mailboxes(current \ last),
                   qu \in sort_mailboxes(last \cap current) :
                  /\ sync_queue' = qn \o qu
                  /\ sync_pc' = "refresh"
    /\ UNCHANGED <<files, file_writes, mailbox, to_fetch, jobVars, restVars,
                   saveVars,
                   toggleVars, remoteVars>>

\* refresh_mailbox lines 27-37: the uids to fetch
refresh_mailbox_begin ==
    /\ sync_pc = "refresh"
    /\ sync_queue # <<>>
    /\ LET mb == Head(sync_queue) IN
       \/ /\ mailbox' = mb
          /\ to_fetch' = fetch_uids_after_date(mb) \ AlreadySaved(rows, mb)
          /\ sync_queue' = Tail(sync_queue)
          /\ sync_pc' = "fetch"
          /\ UNCHANGED <<events, refresh_failed, retry_exhausted>>
       \/ \* fetch_uids_after_date raised, for a malformed answer or because
          \* _retry gave up: the except of line 61 takes either
          /\ events' = events \cup {<<"failure", "mail", mb>>}
          /\ refresh_failed' = refresh_failed \cup {mb}
          /\ \E cause \in ErrorCauses :
                retry_exhausted' = (retry_exhausted \/ cause = "connection")
          /\ AfterFailure(Tail(sync_queue))
          /\ UNCHANGED <<mailbox, to_fetch>>
    /\ UNCHANGED <<last_mailboxes, current_mailboxes, fetch_failed, jobVars,
                   restVars,
                   storeVars, saveVars, toggleVars, remoteVars>>

\* refresh_mailbox lines 39-50: one uid of to_fetch
refresh_mailbox_fetch ==
    /\ sync_pc = "fetch"
    /\ \E uid \in to_fetch :
         /\ to_fetch' = to_fetch \ {uid}
         /\ \/ \* the mail was fetched: db.save_email(mail)
               LET mail == MailMessage(mailbox, uid) IN
               /\ rows' = save_email_rows(rows, mail)
               /\ files' = save_email_files(files, mail)
               /\ file_writes' =
                    [file_writes EXCEPT ![sha1(mail.message_id)] =
                        IF sha1(mail.message_id) \in DOMAIN files
                        THEN @ ELSE @ + 1]
               /\ UNCHANGED fetch_failed
            \/ \* fetch_email_by_uid returned None or raised: logged, skipped
               /\ fetch_failed' = fetch_failed \cup {<<mailbox, uid>>}
               /\ UNCHANGED storeVars
    /\ UNCHANGED <<sync_pc, last_mailboxes, current_mailboxes, sync_queue,
                   mailbox, events, refresh_failed, retry_exhausted, jobVars,
                   restVars, saveVars,
                   toggleVars, remoteVars>>

\* refresh_mailbox lines 52-60: the event, then the next mailbox
refresh_mailbox_end ==
    /\ sync_pc = "fetch"
    /\ to_fetch = {}
    /\ events' = events \cup {<<"new", "mail", mailbox>>}
    /\ AfterRefresh(sync_queue)
    /\ UNCHANGED <<last_mailboxes, current_mailboxes, mailbox, to_fetch,
                   fetch_failed, refresh_failed, retry_exhausted, jobVars,
                   restVars, storeVars, saveVars,
                   toggleVars, remoteVars>>

\* update_flags_for_mailbox for the next current mailbox
update_flags_for_mailbox ==
    /\ sync_pc = "flags"
    /\ sync_queue # <<>>
    /\ LET mb == Head(sync_queue) IN
       \/ \* msg_ids[0] of an empty mailbox raises IndexError
          /\ remote_uids[mb] # {}
          /\ rows' = db_update_flags(rows, fetch_all_flags_off_mailbox(mb), mb)
          /\ events' = events \cup {<<"updated", "flags", mb>>}
          /\ UNCHANGED <<refresh_failed, retry_exhausted>>
       \/ \* fetching the flags raised: the except of line 91
          /\ events' = events \cup {<<"failure", "flags", mb>>}
          /\ refresh_failed' = refresh_failed \cup {mb}
          /\ \E cause \in ErrorCauses :
                retry_exhausted' = (retry_exhausted \/ cause = "connection")
          /\ UNCHANGED rows
    /\ sync_queue' = Tail(sync_queue)
    /\ sync_pc' = IF Tail(sync_queue) = <<>> THEN "done" ELSE "flags"
    /\ UNCHANGED <<files, file_writes, last_mailboxes, current_mailboxes,
                   mailbox, to_fetch, fetch_failed, jobVars, restVars, saveVars,
                   toggleVars, remoteVars>>

SyncNext ==
    \/ remote_change
    \/ sync_account_begin
    \/ refresh_mailbox_begin
    \/ refresh_mailbox_fetch
    \/ refresh_mailbox_end
    \/ update_flags_for_mailbox

SyncSpec == Init /\ [][SyncNext]_vars

(***************************************************************************)
(* sync_account of src/background_tasks/refresh.py: no try block, so any   *)
(* exception of a client call ends the pass                                *)
(***************************************************************************)
\* the orders in which a for loop can walk the set S
any_order(S) ==
    {q \in [1..Cardinality(S) -> S] :
        \A i, j \in 1..Cardinality(S) : i # j => q[i] # q[j]}

\* a search that takes the watermark as its lower bound
sync_mail_ids_since_watermark(mb) ==
    {u \in remote_uids[mb] : date_sent(MessageIdOf(mb, u)) > 1}

\* line 87, set(client.fetch_uids_after_date(mailbox=mailbox)) for a known
\* mailbox: after_date is left out, so every uid of the mailbox is returned
sync_mail_ids(mb) == fetch_uids_after_date(mb)

\* db.delete_records(MailMessageSQL, imap_uid.in_(uids), mailbox == mb)
delete_uids(table, mb, uids) ==
    {r \in table : ~(r.mailbox = mb /\ r.imap_uid \in uids)}

\* sync_account is over, by return or by exception: its locals are gone
bg_sync_over(how) ==
    /\ sync_pc' = how
    /\ last_mailboxes' = {}
    /\ current_mailboxes' = {}
    /\ sync_queue' = <<>>
    /\ mailbox' = "none"
    /\ to_fetch' = {}

\* lines 65-74: the local and the listed mailboxes, the deleted ones
bg_sync_account_begin ==
    /\ sync_pc \in {"idle", "done", "aborted"}
    /\ \A r \in rows : r.id <= MaxRowId
    /\ \/ \* client.list_mailboxes() raised
          /\ bg_sync_over("aborted")
          /\ UNCHANGED rows
       \/ LET last == {r.mailbox : r \in rows}
              current == remote_mailboxes
          IN /\ last_mailboxes' = last
             /\ current_mailboxes' = current
             /\ mailbox' = "none"
             /\ to_fetch' = {}
             /\ rows' = delete_mailbox(rows, last \ current)
             /\ \E qn \in any_order(current \ last),
                   qu \in any_order(last \cap current) :
                  /\ sync_queue' = qn \o qu
                  /\ sync_pc' = "bg_mailbox"
    /\ UNCHANGED <<files, file_writes, events, fetch_failed, refresh_failed,
                   retry_exhausted, jobVars, restVars, saveVars, toggleVars,
                   remoteVars>>

\* lines 76-105: the uids of the next mailbox; for a mailbox that was
\* known before, the rows whose uid the server no longer lists are deleted
bg_sync_mailbox ==
    /\ sync_pc = "bg_mailbox"
    /\ sync_queue # <<>>
    /\ LET mb == Head(sync_queue) IN
       \/ LET mail_ids == sync_mail_ids(mb)
              already_saved == AlreadySaved(rows, mb)
          IN /\ mailbox' = mb
             /\ sync_queue' = Tail(sync_queue)
             /\ sync_pc' = "bg_fetch"
             /\ IF mb \in last_mailboxes
                THEN /\ rows' = delete_uids(rows, mb, already_saved \ mail_ids)
                     /\ to_fetch' = mail_ids \ already_saved
                ELSE /\ rows' = rows
                     /\ to_fetch' = fetch_uids_after_date(mb)
             /\ UNCHANGED <<last_mailboxes, current_mailboxes>>
       \/ \* fetch_uids_after_date raised
          /\ bg_sync_over("aborted")
          /\ UNCHANGED rows
    /\ UNCHANGED <<files, file_writes, events, fetch_failed, refresh_failed,
                   retry_exhausted, jobVars, restVars, saveVars, toggleVars,
                   remoteVars>>

\* fetch_and_save_mails for one uid of the list
bg_sync_fetch ==
    /\ sync_pc = "bg_fetch"
    /\ \E uid \in to_fetch :
         \/ LET mail == MailMessage(mailbox, uid) IN
            /\ rows' = save_email_rows(rows, mail)
            /\ files' = save_email_files(files, mail)
            /\ file_writes' =
                 [file_writes EXCEPT ![sha1(mail.message_id)] =
                     IF sha1(mail.message_id) \in DOMAIN files
                     THEN @ ELSE @ + 1]
            /\ to_fetch' = to_fetch \ {uid}
            /\ UNCHANGED <<sync_pc, last_mailboxes, current_mailboxes,
                           sync_queue, mailbox>>
         \/ \* fetch_email_by_uid returned None: logged, skipped
            /\ to_fetch' = to_fetch \ {uid}
            /\ UNCHANGED <<sync_pc, last_mailboxes, current_mailboxes,
                           sync_queue, mailbox, storeVars>>
         \/ \* the client raised
            /\ bg_sync_over("aborted")
            /\ UNCHANGED storeVars
    /\ UNCHANGED <<events, fetch_failed, refresh_failed, retry_exhausted,
                   jobVars, restVars, saveVars, toggleVars, remoteVars>>

\* the generator is exhausted: the next mailbox, or the flags (line 112)
bg_sync_mailbox_end ==
    /\ sync_pc = "bg_fetch"
    /\ to_fetch = {}
    /\ IF sync_queue # <<>>
       THEN sync_pc' = "bg_mailbox" /\ UNCHANGED sync_queue
       ELSE \E q \in any_order(current_mailboxes) :
               sync_queue' = q /\ sync_pc' = "bg_flags"
    /\ UNCHANGED <<last_mailboxes, current_mailboxes, mailbox, to_fetch,
                   events, fetch_failed, refresh_failed, retry_exhausted,
                   jobVars, restVars, storeVars, saveVars, toggleVars,
                   remoteVars>>

\* lines 113-115: the flags of the next current mailbox
bg_sync_flags ==
    /\ sync_pc = "bg_flags"
    /\ sync_queue # <<>>
    /\ LET mb == Head(sync_queue) IN
       \/ /\ remote_uids[mb] # {}
          /\ rows' = db_update_flags(rows, fetch_all_flags_off_mailbox(mb), mb)
          /\ IF Tail(sync_queue) = <<>>
             THEN bg_sync_over("done")
             ELSE /\ sync_queue' = Tail(sync_queue)
                  /\ UNCHANGED <<sync_pc, last_mailboxes, current_mailboxes,
                                 mailbox, to_fetch>>
       \/ \* fetch_all_flags_off_mailbox raised
          /\ bg_sync_over("aborted")
          /\ UNCHANGED rows
    /\ UNCHANGED <<files, file_writes, events, fetch_failed, refresh_failed,
                   retry_exhausted, jobVars, restVars, saveVars, toggleVars,
                   remoteVars>>

(***************************************************************************)
(* The INBOX of the server between two passes: mails are delivered and     *)
(* expunged, and other mail programs set and clear their flags.            *)
(***************************************************************************)
remote_inbox_change ==
    /\ sync_pc \in {"idle", "done", "aborted"}
    /\ \E u \in SUBSET Uids :
         \E f \in [u -> RemoteFlagSets] :
            /\ remote_uids' = [remote_uids EXCEPT ![imap_inbox_folder] = u]
            /\ server_flags' =
                 [slot \in Mailboxes \X Uids |->
                    IF slot[1] = imap_inbox_folder /\ slot[2] \in u
                    THEN f[slot[2]] ELSE server_flags[slot]]
    /\ sync_pc' = "idle"
    /\ last_mailboxes' = {}
    /\ current_mailboxes' = {}
    /\ sync_queue' = <<>>
    /\ mailbox' = "none"
    /\ to_fetch' = {}
    /\ events' = {}
    /\ fetch_failed' = {}
    /\ refresh_failed' = {}
    /\ retry_exhausted' = FALSE
    /\ UNCHANGED <<jobVars, restVars, storeVars, saveVars, toggle_arg,
                   toggle_result,
                   toggle_before, remote_mailboxes>>

\* synchronisation passes over an INBOX whose mails and flags change
FlagSyncNext ==
    \/ remote_inbox_change
    \/ sync_account_begin
    \/ refresh_mailbox_begin
    \/ refresh_mailbox_fetch
    \/ refresh_mailbox_end
    \/ update_flags_for_mailbox

FlagSyncSpec == Init /\ [][FlagSyncNext]_vars

(***************************************************************************)
(* refresh_mailbox and fetch_and_save_mails of                             *)
(* src/background_tasks/refresh.py, the refresh the endpoint streams       *)
(***************************************************************************)
\* timedelta(days=60): the lookback of a first refresh
lookback_days == 60

\* MailDB.get_update_status: None when the file does not exist
get_update_status(file) == file

\* a refresh that persists the timestamp as soon as it has taken it
StartOfPassPersisted(file, t) == Some(t)

\* line 33: start_to_update is a local variable, the file is not touched
StartOfPass(file, t) == file

\* lines 57-61: the status object is read again and rebound or updated in
\* memory; db.write_update_status is not called, the file stays as it is
EndOfPass(file, new_status) == file

\* the server while a refresh may be running: a mail is delivered to a
\* listed mailbox or expunged from it
remote_mail_change(mb, uid) ==
    /\ mb \in remote_mailboxes
    /\ remote_uids' = [remote_uids EXCEPT ![mb] =
                         IF uid \in @ THEN @ \ {uid} ELSE @ \cup {uid}]
    /\ UNCHANGED <<remote_mailboxes, jobVars, restVars, storeVars, saveVars,
                   toggleVars, syncVars>>

\* the user creates a mailbox on the server
remote_mailbox_created(mb) ==
    /\ mb \notin remote_mailboxes
    /\ remote_mailboxes' = remote_mailboxes \cup {mb}
    /\ UNCHANGED <<remote_uids, jobVars, restVars, storeVars, saveVars,
                   toggleVars, syncVars>>

\* lines 33-39: the timestamp and the lower bound of the window; the
\* endpoint answers 404 for a mailbox the server does not list
bg_refresh_mailbox_start(mb) ==
    /\ bg_pc \in {"idle", "returned", "raised"}
    /\ mb \in remote_mailboxes
    /\ \E t \in Tick(now) :
         /\ now' = t
         /\ start_to_update' = t
         /\ after_date' = IF get_update_status(update_info) # None
                          THEN get_update_status(update_info)[1]
                          ELSE t - lookback_days
         /\ update_info' = StartOfPass(update_info, t)
    /\ update_info_before' = update_info
    /\ store_before' = rows
    /\ yielded' = <<>>
    /\ bg_mailbox' = mb
    /\ to_do' = {}
    /\ status' = None
    /\ bg_pc' = "fetch_uids"
    /\ UNCHANGED <<jobs, loop_pc, type_idx, pending_jobs, job, add_result,
                   handler_result, in_tick, retryVars, pushVars,
                   dbToggleVars, apiVars, sessionVars, fuzzyVars, clientVars,
                   queryVars,
                   storeVars,
                   saveVars,
                   toggleVars,
                   remoteVars, syncVars>>

\* lines 41-51: connect, search the uids, subtract the stored ones; a
\* connection error leaves the generator as an exception
bg_refresh_mailbox_uids ==
    /\ bg_pc = "fetch_uids"
    /\ \/ /\ to_do' = fetch_uids_after_date(bg_mailbox)
                        \ AlreadySaved(rows, bg_mailbox)
          /\ bg_pc' = "fetch"
       \/ /\ bg_pc' = "raised"
          /\ UNCHANGED to_do
    /\ UNCHANGED <<update_info, bg_mailbox, start_to_update, after_date, status,
                   update_info_before, store_before, yielded, retryVars,
                   pushVars, dbToggleVars, apiVars, sessionVars, fuzzyVars,
                   clientVars,
                   queryVars,
                   jobVars, storeVars, saveVars,
                   toggleVars, remoteVars, syncVars>>

\* fetch_and_save_mails: one uid of the list
fetch_and_save_mails ==
    /\ bg_pc = "fetch"
    /\ \E uid \in to_do :
         \/ \* fetched, handed to save_email, the message id is yielded
            \* whatever save_email returned
            LET mail == MailMessage(bg_mailbox, uid) IN
            /\ rows' = save_email_rows(rows, mail)
            /\ files' = save_email_files(files, mail)
            /\ file_writes' =
                 [file_writes EXCEPT ![sha1(mail.message_id)] =
                     IF sha1(mail.message_id) \in DOMAIN files
                     THEN @ ELSE @ + 1]
            /\ to_do' = to_do \ {uid}
            /\ yielded' = Append(yielded, mail.message_id)
            /\ UNCHANGED bg_pc
         \/ \* fetch_email_by_uid returned None: logged, skipped
            /\ to_do' = to_do \ {uid}
            /\ UNCHANGED <<bg_pc, storeVars, yielded>>
         \/ \* the connection failed for good: the exception is not caught
            /\ bg_pc' = "raised"
            /\ UNCHANGED <<to_do, storeVars, yielded>>
    /\ UNCHANGED <<update_info, bg_mailbox, start_to_update, after_date, status,
                   update_info_before, store_before, retryVars, pushVars,
                   dbToggleVars, apiVars, sessionVars, fuzzyVars, clientVars,
                   queryVars,
                   jobVars, saveVars, toggleVars,
                   remoteVars, syncVars>>

\* lines 57-61 and the end of the generator
bg_refresh_mailbox_end ==
    /\ bg_pc = "fetch"
    /\ to_do = {}
    /\ status' = Some(start_to_update)
    /\ update_info' = EndOfPass(update_info, Some(start_to_update))
    /\ bg_pc' = "returned"
    /\ UNCHANGED <<bg_mailbox, start_to_update, after_date, to_do,
                   update_info_before, store_before, yielded, retryVars,
                   pushVars, dbToggleVars,
                   apiVars, sessionVars, fuzzyVars, clientVars, queryVars,
                   jobVars, storeVars, saveVars,
                   toggleVars, remoteVars, syncVars>>

RefreshNext ==
    \/ \E mb \in Mailboxes, uid \in Uids : remote_mail_change(mb, uid)
    \/ \E mb \in Mailboxes : remote_mailbox_created(mb)
    \/ \E mb \in Mailboxes : bg_refresh_mailbox_start(mb)
    \/ bg_refresh_mailbox_uids
    \/ fetch_and_save_mails
    \/ bg_refresh_mailbox_end

RefreshSpec == Init /\ [][RefreshNext]_vars

\* refresh.py, the module next to the package: the same generator, but
\* session.exec(select(MailMessageSQL.imap_uid)).all() has no where clause
already_saved_uids(table) == {r.imap_uid : r \in table}

\* refresh.py lines 44-52
old_refresh_mailbox_uids ==
    /\ bg_pc = "fetch_uids"
    /\ \/ /\ to_do' = fetch_uids_after_date(bg_mailbox)
                        \ already_saved_uids(rows)
          /\ bg_pc' = "fetch"
       \/ /\ bg_pc' = "raised"
          /\ UNCHANGED to_do
    /\ UNCHANGED <<update_info, bg_mailbox, start_to_update, after_date, status,
                   update_info_before, store_before, yielded, retryVars,
                   pushVars, dbToggleVars, apiVars, sessionVars, fuzzyVars,
                   clientVars,
                   queryVars,
                   jobVars, storeVars, saveVars,
                   toggleVars, remoteVars, syncVars>>

OldRefreshNext ==
    \/ \E mb \in Mailboxes, uid \in Uids : remote_mail_change(mb, uid)
    \/ \E mb \in Mailboxes : remote_mailbox_created(mb)
    \/ \E mb \in Mailboxes : bg_refresh_mailbox_start(mb)
    \/ old_refresh_mailbox_uids
    \/ fetch_and_save_mails
    \/ bg_refresh_mailbox_end

OldRefreshSpec == Init /\ [][OldRefreshNext]_vars

\* the server changes between two passes, the passes run
BgSyncNext ==
    \/ /\ sync_pc \in {"idle", "done", "aborted"}
       /\ \E mb \in Mailboxes, uid \in Uids : remote_mail_change(mb, uid)
    \/ /\ sync_pc \in {"idle", "done", "aborted"}
       /\ \E mb \in Mailboxes : remote_mailbox_created(mb)
    \/ bg_sync_account_begin
    \/ bg_sync_mailbox
    \/ bg_sync_fetch
    \/ bg_sync_mailbox_end
    \/ bg_sync_flags

BgSyncSpec == Init /\ [][BgSyncNext]_vars

(***************************************************************************)
(* RealIMAPClient._retry and the methods that hand it one network          *)
(* operation and then look at the status of the answer                     *)
(***************************************************************************)
\* ImapSettings.max_retries
max_retries == 3

\* the network operations wrapped by _retry whose status goes to
\* _raise_on_status: select, list, uid SEARCH, search and fetch of the
\* flags, uid STORE
RaisingOps == {"select", "list", "uid_search", "fetch_flags", "store_flags"}

\* fetch_email_by_uid and get_mailbox_quota return None for a status
\* other than OK
NoneOps == {"uid_fetch", "getquota"}

\* what func does in one call: it raises, or the server answers
FuncOutcomes == {"raise", "OK", "NO"}

\* the rest of the program does not take part
RetryFrame ==
    UNCHANGED <<jobVars, bgVars, pushVars, dbToggleVars, apiVars,
                sessionVars, fuzzyVars, clientVars,
                queryVars,
                storeVars,
                saveVars,
                toggleVars,
                remoteVars, syncVars>>

\* a client method starts _retry: attempts = self.settings.max_retries
retry_begin(op) ==
    /\ retry_pc \in {"idle", "done"}
    /\ retry_op' = op
    /\ attempts' = max_retries
    /\ calls' = 0
    /\ retry_log' = <<>>
    /\ statuses' = {}
    /\ retry_result' = "none"
    /\ op_result' = "none"
    /\ retry_pc' = "loop"
    /\ RetryFrame

\* while attempts > 0: try: return func(*args, **kwargs)
retry_call ==
    /\ retry_pc = "loop"
    /\ attempts > 0
    /\ calls' = calls + 1
    /\ retry_log' = Append(retry_log, "call")
    /\ \E outcome \in FuncOutcomes :
         IF outcome = "raise"
         THEN /\ retry_pc' = "logout"
              /\ UNCHANGED <<retry_result, statuses>>
         ELSE /\ retry_pc' = "returned"
              /\ retry_result' = outcome
              /\ statuses' = statuses \cup {outcome}
    /\ UNCHANGED <<retry_op, attempts, op_result>>
    /\ RetryFrame

\* except: self.logout(), which swallows its own errors
retry_logout ==
    /\ retry_pc = "logout"
    /\ retry_log' = Append(retry_log, "logout")
    /\ retry_pc' = "sleep"
    /\ UNCHANGED <<retry_op, attempts, calls, statuses, retry_result,
                   op_result>>
    /\ RetryFrame

\* time.sleep(self.settings.retry_delay)
retry_sleep ==
    /\ retry_pc = "sleep"
    /\ retry_log' = Append(retry_log, "sleep")
    /\ retry_pc' = "connect"
    /\ UNCHANGED <<retry_op, attempts, calls, statuses, retry_result,
                   op_result>>
    /\ RetryFrame

\* self.connect(); attempts -= 1.  connect raises when the server cannot
\* be reached or refuses the login, and the except block has no handler
\* of its own: that exception leaves _retry
retry_connect ==
    /\ retry_pc = "connect"
    /\ \/ /\ retry_log' = Append(retry_log, "connect")
          /\ attempts' = attempts - 1
          /\ retry_pc' = "loop"
          /\ UNCHANGED retry_result
       \/ /\ retry_log' = Append(retry_log, "connect failed")
          /\ retry_result' = "ConnectionError"
          /\ retry_pc' = "raised"
          /\ UNCHANGED attempts
    /\ UNCHANGED <<retry_op, calls, statuses, op_result>>
    /\ RetryFrame

\* raise Exception("Max retry attempts reached.")
retry_give_up ==
    /\ retry_pc = "loop"
    /\ attempts = 0
    /\ retry_result' = "Max retry attempts reached."
    /\ retry_pc' = "raised"
    /\ UNCHANGED <<retry_op, attempts, calls, retry_log, statuses, op_result>>
    /\ RetryFrame

\* _raise_on_status(result, msg): raise imaplib.IMAP4.error(msg) unless OK
raise_on_status(result) == IF result = "OK" THEN "OK" ELSE "IMAP4.error"

\* the client method after _retry: an exception of _retry goes on to the
\* caller, a returned status is looked at
client_method_end ==
    /\ retry_pc \in {"returned", "raised"}
    /\ op_result' =
         IF retry_pc = "raised" THEN retry_result
         ELSE IF retry_op \in RaisingOps THEN raise_on_status(retry_result)
         ELSE IF retry_result = "OK" THEN "OK" ELSE "None"
    /\ retry_pc' = "done"
    /\ UNCHANGED <<retry_op, attempts, calls, retry_log, statuses,
                   retry_result>>
    /\ RetryFrame

RetryNext ==
    \/ \E op \in RaisingOps \cup NoneOps : retry_begin(op)
    \/ retry_call
    \/ retry_logout
    \/ retry_sleep
    \/ retry_connect
    \/ retry_give_up
    \/ client_method_end

RetrySpec == Init /\ [][RetryNext]_vars
(***************************************************************************)
(* RealIMAPClient.update_flags called with a mail of the INBOX             *)
(***************************************************************************)
\* the MailMessage objects a caller hands to update_flags
PushedMails ==
    [mailbox : {imap_inbox_folder}, imap_uid : Uids, seen : BOOLEAN,
     answered : BOOLEAN, flagged : BOOLEAN]

client_update_flags(mail) ==
    /\ mail.imap_uid \in remote_uids[mail.mailbox]
    /\ server_flags' = update_flags(server_flags, mail)
    /\ push_arg' = Some(mail)
    /\ push_before' = server_flags[<<mail.mailbox, mail.imap_uid>>]
    /\ push_after' =
         update_flags(server_flags, mail)[<<mail.mailbox, mail.imap_uid>>]
    /\ UNCHANGED <<toggle_arg, toggle_result, toggle_before, jobVars, bgVars,
                   retryVars, dbToggleVars, apiVars, sessionVars, fuzzyVars,
                   clientVars,
                   queryVars,
                   storeVars,
                   saveVars,
                   remoteVars,
                   syncVars>>

PushNext ==
    \/ remote_inbox_change
    \/ \E mail \in PushedMails : client_update_flags(mail)

PushSpec == Init /\ [][PushNext]_vars
(***************************************************************************)
(* MailDB.toggle_flag of src/database/mail_db.py called by itself          *)
(***************************************************************************)
MailDB_toggle_flag(email_message_id, flag) ==
    LET res == db_toggle_flag(rows, email_message_id, flag)
        before == {r \in rows : r.message_id = email_message_id}
    IN
    /\ rows' = res.rows
    /\ db_arg' = <<email_message_id, flag>>
    /\ db_kind' = res.kind
    /\ db_value' = IF res.kind = "Ok" THEN Some(res.value) ELSE None
    /\ db_flags_before' = IF before = {} THEN None
                          ELSE Some(FlagsOf(CHOOSE r \in before : TRUE))
    /\ db_prev' = <<db_arg, db_kind, db_flags_before>>
    /\ UNCHANGED <<files, file_writes, jobVars, bgVars, retryVars, pushVars,
                   apiVars, sessionVars, fuzzyVars, clientVars, queryVars,
                   saveVars, toggleVars, remoteVars, syncVars>>

\* the mails of the INBOX are saved, flags are toggled
StoreToggleNext ==
    \/ \E uid \in Uids : save_email(MailMessage(imap_inbox_folder, uid))
                            /\ StoreFrame
    \/ \E m \in MessageIds, flag \in MailFlag : MailDB_toggle_flag(m, flag)

StoreToggleSpec == Init /\ [][StoreToggleNext]_vars
(***************************************************************************)
(* MailDB.update_flags of src/database/mail_db.py called by itself         *)
(***************************************************************************)
\* the flag tuples of a snapshot handed to update_flags
SnapshotFlagSets == {{}, {"Seen", "Answered"}}

\* the snapshots: some uids, each with its flags
Snapshots == UNION {[D -> SnapshotFlagSets] : D \in SUBSET Uids}

MailDB_update_flags(data, mb) ==
    /\ rows' = db_update_flags(rows, data, mb)
    /\ uf_data' = data
    /\ uf_mailbox' = mb
    /\ uf_tick' = ~uf_tick
    /\ UNCHANGED <<del_mailbox, del_tick, queryVars, clientVars, sessionVars,
                   fuzzyVars,
                   files,
                   file_writes,
                   jobVars,
                   bgVars, retryVars, pushVars,
                   dbToggleVars, saveVars, toggleVars, remoteVars, syncVars>>

\* mails are saved, snapshots of flags are applied
StoreFlagsNext ==
    \/ \E mail \in Mails : save_email(mail) /\ StoreFrame
    \/ \E data \in Snapshots, mb \in Mailboxes : MailDB_update_flags(data, mb)

StoreFlagsSpec == Init /\ [][StoreFlagsNext]_vars
(***************************************************************************)
(* MailDB.delete_records(MailMessageSQL, MailMessageSQL.mailbox == mb)     *)
(* called by itself: the rows are deleted in one session, and the          *)
(* contents folder is not looked at.  Row ids grow with every save after a *)
(* deletion, so the calls stop once an id passes MaxRowId.                 *)
(***************************************************************************)
MailDB_delete_records(mb) ==
    /\ \A r \in rows : r.id <= MaxRowId
    /\ rows' = delete_mailbox(rows, {mb})
    /\ del_mailbox' = mb
    /\ del_tick' = ~del_tick
    /\ UNCHANGED <<files, file_writes, uf_data, uf_mailbox, uf_tick,
                   queryVars, clientVars, sessionVars, fuzzyVars,
                   jobVars,
                   bgVars, retryVars, pushVars, dbToggleVars, saveVars,
                   toggleVars, remoteVars, syncVars>>

\* mails are saved, the rows of a mailbox are deleted
StoreDeleteNext ==
    \/ \E mail \in Mails : save_email(mail) /\ StoreFrame
    \/ \E mb \in Mailboxes : MailDB_delete_records(mb)

StoreDeleteSpec == Init /\ [][StoreDeleteNext]_vars

(***************************************************************************)
(* MailDB and its FuzzySearchCache.  The constructor creates the cache and *)
(* updates it from the store, which is empty then; that first update sets  *)
(* _last_update to the time of construction.                               *)
(***************************************************************************)
FuzzyFrame ==
    UNCHANGED <<jobVars, bgVars, retryVars, pushVars, dbToggleVars, apiVars,
                sessionVars, clientVars, queryVars, saveVars, toggleVars,
                remoteVars, syncVars>>

\* the From address of a message
sender(message_id) == IF message_id = "m3" THEN "bob" ELSE "alice"

\* what a user may type: nothing, words of one subject, a sender
Queries == {""} \cup MessageIds \cup {"alice", "bob"}

\* FuzzySearchCache.update: entries are added or overwritten, none removed
FuzzySearchCache_update(subjects, senders, messages) ==
    [subjects |-> subjects \cup messages,
     senders |-> senders \cup {sender(m) : m \in messages}]

\* FuzzySearchCache.search: the entries whose text scores above the
\* threshold; the identifier is the key of the dictionary
FuzzySearchCache_search(subjects, senders, query) ==
    IF query = "" THEN {}
    ELSE {[indentifier |-> m, match_type |-> "subject"] :
             m \in {x \in subjects : x = query}}
         \cup {[indentifier |-> a, match_type |-> "sender"] :
                 a \in {x \in senders : x = query}}

\* MailDB.save_mail: the row is committed, then the cache takes the mail;
\* a second row with the same message_id fails at the commit
MailDB_save_mail(mail) ==
    /\ Existing(rows, mail) = {}
    /\ rows' = rows \cup {MailMessageSQL(rows, mail)}
    /\ LET c == FuzzySearchCache_update(fz_subjects, fz_senders,
                                        {mail.message_id}) IN
       /\ fz_subjects' = c.subjects
       /\ fz_senders' = c.senders
    /\ fz_last_update' = 1
    /\ UNCHANGED <<files, file_writes, fz_result, fz_tick>>
    /\ FuzzyFrame

\* MailDB.fuzzy_search
MailDB_fuzzy_search(query, force_update) ==
    /\ LET c == IF force_update \/ fz_last_update = 0
                THEN FuzzySearchCache_update(fz_subjects, fz_senders,
                                             {r.message_id : r \in rows})
                ELSE [subjects |-> fz_subjects, senders |-> fz_senders] IN
       /\ fz_subjects' = c.subjects
       /\ fz_senders' = c.senders
       /\ fz_result' = FuzzySearchCache_search(c.subjects, c.senders, query)
    /\ fz_last_update' = 1
    /\ fz_tick' = ~fz_tick
    /\ UNCHANGED storeVars
    /\ FuzzyFrame

FuzzyNext ==
    \/ \E mail \in Mails : MailDB_save_mail(mail)
    \/ \E mb \in Mailboxes : MailDB_delete_records(mb)
    \/ \E query \in Queries, force_update \in BOOLEAN :
          MailDB_fuzzy_search(query, force_update)

FuzzySpec == Init /\ [][FuzzyNext]_vars

(***************************************************************************)
(* GET /background/status and BackgroundTaskManager.query_status           *)
(***************************************************************************)
\* args of get_background_status: one <<column, value>> per given parameter
where_clauses(f) ==
    (IF f.job_id # None THEN <<<<"id", f.job_id[1]>>>> ELSE <<>>)
    \o (IF f.job_type # None THEN <<<<"job_type", f.job_type[1]>>>> ELSE <<>>)
    \o (IF f.status # None THEN <<<<"status", f.status[1]>>>> ELSE <<>>)
    \o (IF f.message_id # None
        THEN <<<<"email_message_id", f.message_id[1]>>>> ELSE <<>>)
    \o (IF f.account_id # None
        THEN <<<<"account_id", f.account_id[1]>>>> ELSE <<>>)

\* a select that joins the clauses with OR
query_status_any(table, clauses) ==
    LET sel == SelectSeq(table, LAMBDA r :
                   \E k \in 1..Len(clauses) : r[clauses[k][1]] = clauses[k][2])
    IN [k \in 1..Len(sel) |-> from_sql_model(sel[k])]

\* select(JobStatusSQL).where(clause) for every clause, then from_sql_model
query_status(table, clauses) ==
    LET sel == SelectSeq(table, LAMBDA r :
                   \A k \in 1..Len(clauses) : r[clauses[k][1]] = clauses[k][2])
    IN [k \in 1..Len(sel) |-> from_sql_model(sel[k])]

get_background_status(f) ==
    /\ q_pc = "idle"
    /\ q_pc' = "responded"
    /\ q_filter' = f
    /\ LET args == where_clauses(f) IN
       q_result' = IF args = <<>>
                   THEN [raised |-> TRUE, executed |-> FALSE, rows |-> <<>>]
                   ELSE [raised |-> FALSE, executed |-> TRUE,
                         rows |-> query_status(jobs, args)]
    /\ UNCHANGED <<jobVars, bgVars, retryVars, pushVars, dbToggleVars,
                   apiVars, sessionVars, fuzzyVars, clientVars, storeVars,
                   saveVars,
                   toggleVars,
                   remoteVars,
                   syncVars>>

\* the response has been sent, the next request can come
response_sent ==
    /\ q_pc = "responded"
    /\ q_pc' = "idle"
    /\ q_filter' = NoFilter
    /\ q_result' = NoResponse
    /\ UNCHANGED <<jobVars, bgVars, retryVars, pushVars, dbToggleVars,
                   apiVars, sessionVars, fuzzyVars, clientVars, storeVars,
                   saveVars,
                   toggleVars,
                   remoteVars,
                   syncVars>>

(***************************************************************************)
(* fetch_uids_after_date and fetch_email_by_uid of the two clients, asked  *)
(* about one server state.  after_date is None: every message counts.      *)
(***************************************************************************)
\* the uids of S as a list in ascending order of key, ties by uid
sorted(S, key) ==
    CHOOSE s \in [1..Cardinality(S) -> S] :
        \A i, k \in 1..Cardinality(S) :
            i < k => \/ key[s[i]] < key[s[k]]
                     \/ key[s[i]] = key[s[k]] /\ s[i] < s[k]

\* lines 94-106: ValueError for a mailbox the server does not list, else
\* the numbers of the SEARCH response, which a server lists by ascending uid
RealIMAPClient_fetch_uids_after_date(mb) ==
    IF mb \notin remote_mailboxes
    THEN [raised |-> TRUE, uids |-> <<>>]
    ELSE [raised |-> FALSE,
          uids |-> sorted(remote_uids[mb], [u \in Uids |-> u])]

\* lines 67-76: [] for an unknown mailbox, else sorted by date_sent
TestIMAPClient_fetch_uids_after_date(mb) ==
    IF mb \notin remote_mailboxes
    THEN [raised |-> FALSE, uids |-> <<>>]
    ELSE [raised |-> FALSE,
          uids |-> sorted(remote_uids[mb],
                          [u \in Uids |-> date_sent(MessageIdOf(mb, u))])]

\* lines 111-123: _select raises when the server answers NO; a FETCH of a
\* uid that is not there is answered OK with no data, which gives None
RealIMAPClient_fetch_email_by_uid(uid, mb) ==
    IF mb \notin remote_mailboxes THEN [raised |-> TRUE, mail |-> None]
    ELSE IF uid \notin remote_uids[mb] THEN [raised |-> FALSE, mail |-> None]
    ELSE [raised |-> FALSE, mail |-> Some(MessageIdOf(mb, uid))]

\* lines 78-85: self.messages is keyed by the uid alone, so it holds the
\* message that add_messages stored last under this uid, here the one of
\* mailbox last
TestIMAPClient_fetch_email_by_uid(uid, mb, last) ==
    IF mb \notin remote_mailboxes \/ uid \notin remote_uids[mb]
    THEN [raised |-> FALSE, mail |-> None]
    ELSE [raised |-> FALSE, mail |-> Some(MessageIdOf(last, uid))]

\* both clients are asked about (mb, uid)
clients_called(mb, uid) ==
    /\ cl_arg' = <<mb, uid>>
    /\ cl_real' = [search |-> RealIMAPClient_fetch_uids_after_date(mb),
                   fetch |-> RealIMAPClient_fetch_email_by_uid(uid, mb)]
    /\ \E last \in {m \in remote_mailboxes : uid \in remote_uids[m]}
                    \cup {mb} :
         /\ uid \in remote_uids[mb] => uid \in remote_uids[last]
         /\ cl_test' = [search |-> TestIMAPClient_fetch_uids_after_date(mb),
                        fetch |-> TestIMAPClient_fetch_email_by_uid(uid, mb,
                                                                    last)]
    /\ UNCHANGED <<jobVars, bgVars, retryVars, pushVars, dbToggleVars,
                   apiVars, sessionVars, fuzzyVars, queryVars, storeVars,
                   saveVars,
                   toggleVars,
                   remoteVars, syncVars>>

\* the mailboxes change on the server, the clients are asked
ClientNext ==
    \/ \E mb \in Mailboxes, uid \in Uids : remote_mail_change(mb, uid)
    \/ \E mb \in Mailboxes : remote_mailbox_created(mb)
    \/ \E mb \in Mailboxes, uid \in Uids : clients_called(mb, uid)

ClientSpec == Init /\ [][ClientNext]_vars

(***************************************************************************)
(* One RealIMAPClient: _select, then the UID commands of a method, each    *)
(* wrapped by _retry, on the imaplib connection of the client              *)
(***************************************************************************)
SessionFrame ==
    UNCHANGED <<jobVars, bgVars, retryVars, pushVars, dbToggleVars, apiVars,
                clientVars, fuzzyVars, queryVars, storeVars, saveVars,
                toggleVars,
                remoteVars, syncVars>>

\* an imaplib that sends a command in whatever state the connection is
imaplib_sends_always(state) == TRUE

\* imaplib.IMAP4.uid raises "command ... illegal in state ..." without
\* sending anything unless the state is SELECTED (Commands['UID'])
imaplib_sends(state) == state = "SELECTED"

\* connect(): a new IMAP4_SSL, logged in, no mailbox selected
connect == [state |-> "AUTH", mailbox |-> "none"]

\* fetch_uids_after_date and fetch_email_by_uid issue one UID command
\* after _select, update_flags up to three (FETCH, STORE -, STORE +)
client_method_begin(mb, n) ==
    /\ ses_pc \in {"idle", "done"}
    /\ ses_target' = mb
    /\ ses_cmds' = n
    /\ ses_attempts' = max_retries
    /\ ses_pc' = "select"
    /\ UNCHANGED <<conn, ses_sent>>
    /\ SessionFrame

\* the method is over, by return or by exception
client_method_over ==
    /\ ses_pc' = "done"
    /\ ses_cmds' = 0
    /\ ses_attempts' = 0

\* the except block of _retry: logout, sleep, connect, attempts -= 1; an
\* exception of connect leaves _retry
reconnect ==
    \/ /\ conn' = connect
       /\ ses_attempts' = ses_attempts - 1
       /\ UNCHANGED <<ses_pc, ses_cmds>>
    \/ /\ conn' = [state |-> "LOGOUT", mailbox |-> "none"]
       /\ client_method_over

\* _select: self._retry(_select_mailbox), then _raise_on_status
select_mailbox ==
    /\ ses_pc = "select"
    /\ IF ses_attempts = 0
       THEN \* raise Exception("Max retry attempts reached.")
            client_method_over /\ UNCHANGED conn
       ELSE \/ \* OK: imaplib sets the state SELECTED
               /\ conn' = [state |-> "SELECTED", mailbox |-> ses_target]
               /\ ses_pc' = "command"
               /\ ses_attempts' = max_retries
               /\ UNCHANGED ses_cmds
            \/ \* NO: imaplib sets the state AUTH, _raise_on_status raises
               /\ conn' = [state |-> "AUTH", mailbox |-> "none"]
               /\ client_method_over
            \/ \* the call raised
               reconnect
    /\ UNCHANGED <<ses_target, ses_sent>>
    /\ SessionFrame

\* self._retry(func) where func is self.connection.uid(...)
uid_command ==
    /\ ses_pc = "command"
    /\ IF ses_attempts = 0
       THEN client_method_over /\ UNCHANGED <<conn, ses_sent>>
       ELSE IF ~imaplib_sends(conn.state)
       THEN \* imaplib raised before it sent anything
            reconnect /\ UNCHANGED ses_sent
       ELSE /\ ses_sent' = ses_sent \cup {<<ses_target, conn.mailbox>>}
            /\ \/ \* answered OK: the next command of the method, or return
                  /\ IF ses_cmds > 1
                     THEN /\ ses_cmds' = ses_cmds - 1
                          /\ ses_attempts' = max_retries
                          /\ UNCHANGED ses_pc
                     ELSE client_method_over
                  /\ UNCHANGED conn
               \/ \* answered NO: the method raises or returns None
                  client_method_over /\ UNCHANGED conn
               \/ \* the connection broke
                  reconnect
    /\ UNCHANGED ses_target
    /\ SessionFrame

\* the with block ends and another one begins: a new client, connected
new_session ==
    /\ ses_pc \in {"idle", "done"}
    /\ conn' = connect
    /\ ses_sent' = {}
    /\ ses_pc' = "idle"
    /\ UNCHANGED <<ses_target, ses_cmds, ses_attempts>>
    /\ SessionFrame

SessionNext ==
    \/ \E mb \in Mailboxes, n \in 1..3 : client_method_begin(mb, n)
    \/ select_mailbox
    \/ uid_command
    \/ new_session

SessionSpec == Init /\ [][SessionNext]_vars

\* the job manager does not touch the mail store
JobFrame == UNCHANGED <<restVars, storeVars, saveVars, toggleVars,
                        remoteVars, syncVars>>

JobNext ==
    \/ \E ty \in JOB_TYPE, m \in JobMessageIds, a \in AccountInputs :
         add_job(ty, m, a) /\ JobFrame
    \/ process_pending_jobs /\ JobFrame
    \/ run_job_start /\ JobFrame
    \/ run_job_ok /\ JobFrame
    \/ run_job_err /\ JobFrame
    \/ run_job_raise /\ JobFrame
    \/ run_sleep /\ JobFrame

JobSpec == Init /\ [][JobNext]_vars

\* the scheduler runs and clients ask for the status of jobs; the select of
\* a request is one statement, so a request is answered in one step
QueryNext ==
    \/ q_pc = "idle" /\ JobNext
    \/ \E f \in FilterInputs : get_background_status(f)
    \/ response_sent

QuerySpec == Init /\ [][QueryNext]_vars

\* the event loop keeps scheduling the run coroutine, asyncio.sleep returns
\* and the worker thread of asyncio.to_thread ends (by return or by raise)
FairJobSpec ==
    /\ JobSpec
    /\ WF_vars(process_pending_jobs /\ JobFrame)
    /\ WF_vars(run_job_start /\ JobFrame)
    /\ WF_vars((run_job_ok \/ run_job_err \/ run_job_raise) /\ JobFrame)
    /\ WF_vars(run_sleep /\ JobFrame)

Terminal == {"completed", "failed"}

(***************************************************************************)
(* C1: the stored status of a job only moves pending -> in_progress ->     *)
(* completed or failed; it never goes back, never skips in_progress and    *)
(* never leaves completed or failed.                                       *)
(***************************************************************************)
StatusStep(a, b) ==
    \/ a = b
    \/ a = "pending" /\ b = "in_progress"
    \/ a = "in_progress" /\ b \in Terminal

C1_StatusMonotonic ==
    [][\A i \in JobIds : StatusStep(jobs[i].status, jobs'[i].status)]_vars

\* a failed job is still failed while a later tick selects jobs of its type
C1_Witness ==
    \E i \in JobIds :
        /\ jobs[i].status = "failed"
        /\ ~in_tick[i]
        /\ loop_pc = "select"
        /\ RunOrder[type_idx] = jobs[i].job_type
        /\ \E k \in JobIds : in_tick[k]

(***************************************************************************)
(* C2: when the handler of a job fails, by an error result or by an        *)
(* exception, the job is stored failed with an error_message and an        *)
(* end_time.                                                               *)
(***************************************************************************)
C2_FailureIsStored ==
    \A i \in JobIds :
        handler_result[i] \in {"err", "raise"} =>
            /\ jobs[i].status = "failed"
            /\ jobs[i].error_message # None
            /\ jobs[i].end_time # None

(***************************************************************************)
(* C3: a failing handler never stops the scheduler: after a handler raised *)
(* or returned an error the loop is still running, so the jobs left in     *)
(* this tick and the jobs added later are run.                             *)
(***************************************************************************)
C3_LoopSurvivesFailure ==
    (\E i \in JobIds : handler_result[i] \in {"err", "raise"}) =>
        loop_pc # "dead"

(***************************************************************************)
(* C4: every job added with add_job is picked up by the next full tick:    *)
(* a job that was pending when a tick began is completed or failed when    *)
(* that tick ends, and no job stays pending forever while the loop runs.   *)
(***************************************************************************)
C4_PickedUpByNextTick ==
    /\ [](loop_pc = "sleep" =>
            \A i \in JobIds : in_tick[i] => jobs[i].status \in Terminal)
    /\ \A i \in 1..MaxJobs :
          (i \in JobIds /\ jobs[i].status = "pending")
              ~> (loop_pc = "dead" \/
                  (i \in JobIds /\ jobs[i].status \in Terminal))

\* a draft job that was pending at the start of a tick is done at its end
C4_Witness ==
    \E i \in JobIds :
        /\ loop_pc = "sleep"
        /\ in_tick[i]
        /\ jobs[i].job_type = "draft"
        /\ jobs[i].status \in Terminal

C7_ConcurrentSavesNeverFail ==
    /\ \A t \in Threads : save_result[t] # "IntegrityError"
    /\ \A m \in MessageIds :
          Cardinality({r \in rows : r.message_id = m}) <= 1

C8_RemovedMailboxesDeleted ==
    sync_pc = "done" => \A r \in rows : r.mailbox \in current_mailboxes

(***************************************************************************)
(* C9: after a pass, for every mailbox that exists locally and remotely,   *)
(* no stored message of it has a uid that is gone from the remote mailbox. *)
(***************************************************************************)
C9_VanishedUidsDeleted ==
    sync_pc = "done" =>
        \A r \in rows :
            r.mailbox \in last_mailboxes \cap current_mailboxes =>
                r.imap_uid \in remote_uids[r.mailbox]

\* a pass that ended with no refresh and no flag update failing
PassWithoutFailure == sync_pc = "done" /\ refresh_failed = {}

\* the (mailbox, uid) of the server whose fetch succeeded or was not needed
Fetched ==
    {slot \in Mailboxes \X Uids :
        /\ slot[1] \in remote_mailboxes
        /\ slot[2] \in remote_uids[slot[1]]
        /\ slot \notin fetch_failed}

(***************************************************************************)
(* C10 as stated: after a pass without failure the store holds, for every  *)
(* remote mailbox and uid whose fetch succeeds, a message with that        *)
(* mailbox and uid.                                                        *)
(***************************************************************************)
C10_EveryRemoteSlotStored ==
    PassWithoutFailure =>
        \A slot \in Fetched :
            \E r \in rows : r.mailbox = slot[1] /\ r.imap_uid = slot[2]

(***************************************************************************)
(* C10 amended: after a pass without failure the store holds, for every    *)
(* remote mailbox and uid whose fetch succeeds, a message with the         *)
(* message_id of that mail.                                                *)
(***************************************************************************)
C10_EveryRemoteMessageStored ==
    PassWithoutFailure =>
        \A slot \in Fetched :
            \E r \in rows : r.message_id = MessageIdOf(slot[1], slot[2])

\* a pass stored sent/2 next to INBOX/2 and kept one row for the message
\* that is both INBOX/1 and sent/1
C10_Witness ==
    /\ PassWithoutFailure
    /\ fetch_failed = {}
    /\ remote_uids["INBOX"] = Uids
    /\ remote_uids["sent"] = Uids
    /\ \E r \in rows : r.mailbox = "sent" /\ r.imap_uid = 2
    /\ \E r \in rows : r.mailbox = "INBOX" /\ r.imap_uid = 2
    /\ Cardinality({r \in rows : r.message_id = "m1"}) = 1

(***************************************************************************)
(* C11: after a pass (here: one that ended with no refresh and no flag     *)
(* update failing) every stored message that exists on the server has      *)
(* seen, answered and flagged equal to the flags the server holds for the  *)
(* message with the same mailbox and uid.                                  *)
(***************************************************************************)
C11_FlagsMatchServer ==
    PassWithoutFailure =>
        \A r \in rows :
            (r.mailbox \in remote_mailboxes
               /\ r.imap_uid \in remote_uids[r.mailbox])
            => FlagsOf(r) =
                 server_flags[<<r.mailbox, r.imap_uid>>] \cap MailFlag

(***************************************************************************)
(* C12: after a refresh of a mailbox that completes without a fatal        *)
(* connection error the persisted watermark is the timestamp taken when    *)
(* the refresh started.                                                    *)
(***************************************************************************)
C12_WatermarkAdvanced ==
    bg_pc = "returned" => update_info = Some(start_to_update)

(***************************************************************************)
(* C13: when a refresh ends with a fatal connection error the persisted    *)
(* watermark is the value it had before the refresh started.               *)
(***************************************************************************)
C13_WatermarkKeptOnError ==
    bg_pc = "raised" => update_info = update_info_before

\* a refresh saved a mail and then lost the connection for good
C13_Witness ==
    /\ bg_pc = "raised"
    /\ to_do # {}
    /\ \E r \in rows : r.mailbox = bg_mailbox
    /\ update_info = update_info_before

\* the pass has an outcome, success or failure, for the refresh and for the
\* flag update of the mailbox
Handled(mb) ==
    /\ {<<"new", "mail", mb>>, <<"failure", "mail", mb>>} \cap events # {}
    /\ {<<"updated", "flags", mb>>, <<"failure", "flags", mb>>} \cap events # {}

C15_ExhaustedRetriesAbortPass ==
    [][(retry_exhausted /\ sync_pc \in {"refresh", "flags"})
          => sync_queue' = sync_queue]_vars

(***************************************************************************)
(* C16: _retry raises to its caller only after max_retries attempts, with  *)
(* a logout, a sleep and a connect between two consecutive attempts, and   *)
(* it returns right after the first attempt that succeeds.                 *)
(***************************************************************************)
C16_RetryPolicy ==
    /\ retry_pc = "raised" => calls = max_retries
    /\ retry_pc = "returned" =>
          /\ retry_log[Len(retry_log)] = "call"
          /\ Len(retry_log) = 4 * (calls - 1) + 1
    /\ \A i \in 1..Len(retry_log) :
          (retry_log[i] = "call" /\ i + 4 <= Len(retry_log)) =>
              /\ retry_log[i + 1] = "logout"
              /\ retry_log[i + 2] = "sleep"
              /\ retry_log[i + 3] = "connect"
              /\ retry_log[i + 4] = "call"

(***************************************************************************)
(* C17: when the server answers select, list, uid search, flag fetch or    *)
(* flag store with a status other than OK, the error reaches the caller    *)
(* only after the operation was attempted max_retries times.               *)
(***************************************************************************)
C17_StatusIsRetried ==
    (/\ retry_pc = "done"
     /\ retry_op \in RaisingOps
     /\ "NO" \in statuses
     /\ op_result # "OK")
        => calls = max_retries

StoredRowStep == rows' # rows /\ {r.id : r \in rows'} = {r.id : r \in rows}

(***************************************************************************)
(* C20: the store's toggle_flag on a stored message flips the named flag   *)
(* of that message and nothing else, leaves every other message as it is,  *)
(* and returns Ok with the updated record.                                 *)
(***************************************************************************)
C20_ToggleFlipsOneFlag ==
    [][StoredRowStep =>
        \E r \in rows : \E n \in rows' :
            /\ r.message_id = db_arg'[1]
            /\ n.id = r.id
            /\ rows' \ {n} = rows \ {r}
            /\ n = [r EXCEPT !.seen = n.seen, !.answered = n.answered,
                             !.flagged = n.flagged]
            /\ FlagsOf(n) = (FlagsOf(r) \ {db_arg'[2]})
                               \cup ({db_arg'[2]} \ FlagsOf(r))
            /\ db_kind' = "Ok"
            /\ db_value' = Some(n)]_vars

C21_UnknownMessageToggle ==
    [][(/\ toggle_arg'[1] # "none"
        /\ toggle_before' = None
        /\ files' = files)
          => /\ toggle_result' = "Err"
             /\ rows' = rows
             /\ server_flags' = server_flags]_vars

\* a flag of m3 was toggled while the store held other messages only
C21_Witness ==
    /\ toggle_arg[1] = "m3"
    /\ toggle_result = "Err"
    /\ toggle_before = None
    /\ rows # {}
    /\ \A r \in rows : r.message_id # "m3"

(***************************************************************************)
(* C22: update_flags(data, mailbox) sets seen, answered and flagged of     *)
(* every row of that mailbox whose uid is in data to the membership of     *)
(* Seen, Answered, Flagged in data[uid]; rows of other mailboxes, rows     *)
(* whose uid is not in data and every other field stay as they are.        *)
(***************************************************************************)
C22_UpdateFlagsExact ==
    [][uf_tick' # uf_tick =>
        /\ {r.id : r \in rows'} = {r.id : r \in rows}
        /\ \A r \in rows : \E n \in rows' :
              /\ n.id = r.id
              /\ IF r.mailbox = uf_mailbox' /\ r.imap_uid \in DOMAIN uf_data'
                 THEN n = [r EXCEPT
                             !.seen = "Seen" \in uf_data'[r.imap_uid],
                             !.answered = "Answered" \in uf_data'[r.imap_uid],
                             !.flagged = "Flagged" \in uf_data'[r.imap_uid]]
                 ELSE n = r]_vars

\* a snapshot of INBOX set the flags of INBOX/2 and left sent/2, which has
\* the same uid, as it was
C22_Witness ==
    /\ uf_mailbox = "INBOX"
    /\ 2 \in DOMAIN uf_data
    /\ "Seen" \in uf_data[2]
    /\ \E r \in rows : r.mailbox = "INBOX" /\ r.imap_uid = 2 /\ r.seen
    /\ \E r \in rows : r.mailbox = "sent" /\ r.imap_uid = 2 /\ ~r.seen

(***************************************************************************)
(* C23: a deletion removes every row matching the predicate together with  *)
(* the content file of each removed row, and no other row or file.         *)
(***************************************************************************)
C23_DeleteRowsAndFiles ==
    [][del_tick' # del_tick =>
        LET matching == {r \in rows : r.mailbox = del_mailbox'} IN
        /\ rows' = rows \ matching
        /\ DOMAIN files' =
              DOMAIN files \ {r.content_file : r \in matching}]_vars

(***************************************************************************)
(* C24: every job whose status is completed has its output field set to    *)
(* the result its handler returned.                                        *)
(***************************************************************************)
C24_CompletedHasOutput ==
    \A i \in JobIds : jobs[i].status = "completed" => jobs[i].output # None

(***************************************************************************)
(* C25: add_job with an account_id that is not a configured account raises *)
(* and leaves the job table unchanged; with a known account it inserts     *)
(* exactly one new row, with status pending, and returns that row.         *)
(***************************************************************************)
C25_AddJob ==
    [][add_result' # add_result =>
        IF add_result'.account_id \notin Accounts
        THEN /\ add_result'.raised
             /\ add_result'.returned = None
             /\ jobs' = jobs
        ELSE /\ ~add_result'.raised
             /\ Len(jobs') = Len(jobs) + 1
             /\ SubSeq(jobs', 1, Len(jobs)) = jobs
             /\ add_result'.returned = Some(jobs'[Len(jobs')])
             /\ jobs'[Len(jobs')].status = "pending"
             /\ jobs'[Len(jobs')].account_id = add_result'.account_id
             /\ \A i \in JobIds : jobs'[Len(jobs')].id # jobs[i].id]_vars

\* an unknown account is turned away after a job of a known one was added
C25_Witness ==
    /\ add_result.account_id = "nobody"
    /\ add_result.raised
    /\ Len(jobs) = 1
    /\ jobs[1].account_id = "test"

(***************************************************************************)
(* C26: a status query returns exactly the job rows that satisfy every     *)
(* supplied equality filter over id, job_type, status, email_message_id    *)
(* and account_id; a query with no filter is rejected with an error and    *)
(* no select is executed.                                                  *)
(***************************************************************************)
Satisfies(r, f) ==
    /\ f.job_id # None => r.id = f.job_id[1]
    /\ f.job_type # None => r.job_type = f.job_type[1]
    /\ f.status # None => r.status = f.status[1]
    /\ f.message_id # None => r.email_message_id = f.message_id[1]
    /\ f.account_id # None => r.account_id = f.account_id[1]

C26_StatusQuery ==
    [][(q_pc = "idle" /\ q_pc' = "responded") =>
        IF q_filter' = NoFilter
        THEN q_result'.raised /\ ~q_result'.executed
        ELSE LET hit == SelectSeq(jobs, LAMBDA r : Satisfies(r, q_filter')) IN
             /\ ~q_result'.raised
             /\ Len(q_result'.rows) = Len(hit)
             /\ \A k \in 1..Len(hit) :
                   /\ \A c \in DOMAIN q_result'.rows[k] :
                         q_result'.rows[k][c] = hit[k][c]
                   /\ DOMAIN hit[k] \ DOMAIN q_result'.rows[k] = {"id"}]_vars

\* two filters given, one job satisfies both and another only one of them
C26_Witness ==
    /\ q_pc = "responded"
    /\ q_filter.job_type = Some("chat")
    /\ q_filter.status = Some("completed")
    /\ q_filter.job_id = None
    /\ Len(q_result.rows) = 1
    /\ Len(jobs) = 2
    /\ jobs[1].job_type = "chat" /\ jobs[1].status = "completed"
    /\ jobs[2].job_type = "chat" /\ jobs[2].status # "completed"

(***************************************************************************)
(* C27: within one scheduler tick jobs are started in the type order chat, *)
(* summary, draft: when a job starts, the scheduler is at the position of  *)
(* its type, every selected job of an earlier type is completed or failed  *)
(* (none is in progress, none still waits in the selection), and the       *)
(* scheduler moves from a type only to the next one, and from the last     *)
(* type to the sleep that ends the tick.                                   *)
(***************************************************************************)
TypeOrder == <<"chat", "summary", "draft">>

Starts(i) == jobs[i].status = "pending" /\ jobs'[i].status = "in_progress"

EarlierType(a, b) ==
    \E x, y \in 1..Len(TypeOrder) :
        x < y /\ TypeOrder[x] = a /\ TypeOrder[y] = b

C27_TypeOrderInTick ==
    [][/\ \A i \in JobIds : Starts(i) =>
            /\ jobs[i].job_type = TypeOrder[type_idx]
            /\ \A k \in JobIds :
                  EarlierType(jobs[k].job_type, jobs[i].job_type) =>
                      /\ jobs[k].status # "in_progress"
                      /\ \A n \in 1..Len(pending_jobs) :
                            pending_jobs[n].id # k
       /\ \/ type_idx' = type_idx
          \/ type_idx' = type_idx + 1 /\ loop_pc' = "select"
          \/ /\ type_idx = Len(TypeOrder) /\ type_idx' = 1
             /\ loop_pc' = "sleep"]_vars

\* a chat job and a summary job waited at the start of the tick; the chat
\* job is over and the summary job runs
C27_Witness ==
    \E c, u \in JobIds :
        /\ in_tick[c] /\ in_tick[u]
        /\ jobs[c].job_type = "chat" /\ jobs[c].status \in Terminal
        /\ jobs[u].job_type = "summary" /\ jobs[u].status = "in_progress"
        /\ loop_pc = "handler"

(***************************************************************************)
(* C28: every job row is consistent with its status: pending has neither   *)
(* start_time nor end_time; in_progress has a start_time and no end_time,  *)
(* and that is the stored row, and what a status query returns, for the    *)
(* whole time the handler runs; completed and failed have both, with       *)
(* start_time <= end_time; only failed rows have an error_message.         *)
(***************************************************************************)
RowConsistent(r) ==
    /\ r.status = "pending" => r.start_time = None /\ r.end_time = None
    /\ r.status = "in_progress" => r.start_time # None /\ r.end_time = None
    /\ r.status \in Terminal =>
          /\ r.start_time # None /\ r.end_time # None
          /\ r.start_time[1] <= r.end_time[1]
    /\ r.error_message # None => r.status = "failed"

C28_RowsConsistent ==
    /\ \A i \in JobIds : RowConsistent(jobs[i])
    /\ loop_pc = "handler" =>
          /\ jobs[job.id].status = "in_progress"
          /\ jobs[job.id].start_time = job.start_time
          /\ (q_pc = "responded" /\ q_result.executed
                 /\ Satisfies(jobs[job.id], q_filter)) =>
                \E k \in 1..Len(q_result.rows) :
                    /\ q_result.rows[k].status = "in_progress"
                    /\ q_result.rows[k].start_time = job.start_time
                    /\ q_result.rows[k].end_time = None

\* a query made while a handler runs is answered with the running job, and
\* an earlier job has failed after some time
C28_Witness ==
    /\ loop_pc = "handler"
    /\ q_pc = "responded"
    /\ q_filter.message_id = Some("m1")
    /\ Len(q_result.rows) = 2
    /\ \E k \in 1..2 : q_result.rows[k].status = "in_progress"
    /\ \E i \in JobIds :
          /\ jobs[i].status = "failed"
          /\ jobs[i].error_message # None
          /\ jobs[i].start_time[1] < jobs[i].end_time[1]

(***************************************************************************)
(* C29: the fetch-and-save subroutine reports a message id if and only if  *)
(* that message was fetched and saved by this run, one report per save and *)
(* after the save; a uid whose fetch returns nothing is skipped and the    *)
(* remaining uids are still processed.                                     *)
(***************************************************************************)
C29_ReportIffSaved ==
    [][(bg_pc = "fetch" /\ bg_pc' = "fetch") =>
        LET saved == rows' \ rows IN
        /\ Cardinality(saved) <= 1
        /\ saved = {} => yielded' = yielded
        /\ \A r \in saved : yielded' = Append(yielded, r.message_id)
        /\ to_do' \subseteq to_do]_vars

(***************************************************************************)
(* C30: refreshing a mailbox into an empty store streams the message ids   *)
(* of the mailbox in ascending order of sent date, one per saved message,  *)
(* and afterwards the store holds exactly those messages.                  *)
(***************************************************************************)
C30_StreamInDateOrder ==
    (bg_pc = "returned" /\ store_before = {}) =>
        /\ \A i, k \in 1..Len(yielded) :
              i < k => date_sent(yielded[i]) <= date_sent(yielded[k])
        /\ {r.message_id : r \in rows} = {yielded[i] : i \in 1..Len(yielded)}
        /\ Cardinality(rows) = Len(yielded)

(***************************************************************************)
(* C31: for the same remote mailbox contents the in-memory client and the  *)
(* network client answer alike: the same uid list in the same order, the   *)
(* same outcome for a mailbox that does not exist, the same answer for a   *)
(* uid that is not in the mailbox.                                         *)
(***************************************************************************)
C31_ClientsAgree == cl_real = cl_test

C33_OnlyVanishedUidsDeleted ==
    [][\A r \in rows :
          (/\ \A n \in rows' : n.id # r.id
           /\ r.mailbox \in remote_mailboxes)
          => r.imap_uid \notin remote_uids[r.mailbox]]_vars

\* INBOX/2 was stored and has been deleted by a pass (its content file is
\* still there), while INBOX/1, sent after it, is on the server and stored
C33_Witness ==
    /\ sync_pc = "done"
    /\ sha1("m2") \in DOMAIN files
    /\ \A r \in rows : r.message_id # "m2"
    /\ 2 \notin remote_uids["INBOX"]
    /\ 1 \in remote_uids["INBOX"]
    /\ \E r \in rows : r.mailbox = "INBOX" /\ r.imap_uid = 1

(***************************************************************************)
(* C34: within one job manager at most one job is in_progress at any time, *)
(* and it is the job whose handler the loop is waiting for; so two jobs    *)
(* for the same job_type and email_message_id never run at the same time.  *)
(***************************************************************************)
C34_OneJobAtATime ==
    /\ Cardinality({i \in JobIds : jobs[i].status = "in_progress"}) <= 1
    /\ \A i \in JobIds :
          jobs[i].status = "in_progress" =>
              loop_pc \in {"handler", "dead"} /\ job.id = i

\* two jobs for one type and message were added in one poll window: the
\* first one runs, the second one waits
C34_Witness ==
    /\ Len(jobs) = 2
    /\ jobs[1].job_type = jobs[2].job_type
    /\ jobs[1].email_message_id = jobs[2].email_message_id
    /\ in_tick[1] /\ in_tick[2]
    /\ jobs[1].status = "in_progress"
    /\ jobs[2].status = "pending"
    /\ loop_pc = "handler"
    /\ Len(pending_jobs) = 1

C36_UidsScopedToMailbox ==
    [][(bg_pc = "fetch_uids" /\ bg_pc' = "fetch")
       => \A uid \in fetch_uids_after_date(bg_mailbox) :
            (\A r \in rows : ~(r.mailbox = bg_mailbox /\ r.imap_uid = uid))
            => uid \in to_do']_vars

(***************************************************************************)
(* C37: the fuzzy search cache stays consistent with the store: whatever   *)
(* saves and deletions came before, every result of a fuzzy search refers  *)
(* to a message that is in the store when the search is made.              *)
(***************************************************************************)
RefersToStored(x, table) ==
    IF x.match_type = "subject"
    THEN \E r \in table : r.message_id = x.indentifier
    ELSE \E r \in table : sender(r.message_id) = x.indentifier

C37_SearchReturnsStoredOnly ==
    [][fz_tick' # fz_tick
       => \A x \in fz_result' : RefersToStored(x, rows')]_vars

====
